---- MODULE Spec2Model ----
(***************************************************************************)
(* A model of the notes conversion pipeline of notes-tools:                *)
(*   export.py   wire-format decoder, schema navigation, style-run         *)
(*               extraction (ProtobufParser .. parse_note_content)         *)
(*   publish.py  block segmentation, run merging, HTML rendering           *)
(*               (escape_html .. render_block)                             *)
(*                                                                         *)
(* Bytes are integers 0..255, a bytes object is a sequence of them.  A     *)
(* Python str is a sequence of code points (integers), so that slicing,    *)
(* splitting, stripping and escaping are computed character by character   *)
(* as the code computes them.  Python positions are 0-based; the sequences *)
(* here are 1-based, so data[pos] of the code is data[pos + 1] below.      *)
(***************************************************************************)
EXTENDS Integers, Sequences, FiniteSets, TLC

VARIABLES
    data,      \* the byte buffer under decoding (ProtobufParser.data / decompressed record)
    pos,       \* ProtobufParser.pos
    fields,    \* the list parse_all is building
    pc,        \* position of the run: which step comes next
    rec,       \* the description the record under test was constructed from
    parsed,    \* the ParsedNote returned by parse_note_content
    blocks,    \* the block list built by convert_note_to_html
    html,      \* the HTML returned by convert_note_to_html
    log,       \* the lines printed to stdout and stderr, in order
    env,       \* what a publish run finds: templates, notes database, manifest
    all_notes, \* main: the notes of the folder
    notes,     \* main: the notes to render
    lookup,    \* main: note_lookup, the link resolution table
    posts,     \* main: the post data of the notes rendered so far
    files,     \* the paths written so far, in order
    cursor,    \* how many passes the loop of the current step has made
    footnote_result,  \* what process_footnotes returned
    index_html,       \* the posts whose snippets index.html holds, in order
    feed_xml          \* the posts whose items feed.xml holds, in order

publish_vars == <<env, all_notes, notes, lookup, posts, files, cursor, footnote_result,
                  index_html, feed_xml>>

vars == <<data, pos, fields, pc, rec, parsed, blocks, html, log, publish_vars>>

\* the value of env outside a publish run
NoEnv == [kind |-> "none"]

\* the value of footnote_result before process_footnotes has returned
NoResult == [kind |-> "none"]

\* no publish run: nothing loaded, nothing written, nothing printed
PublishIdle ==
    /\ log = <<>>
    /\ env = NoEnv
    /\ all_notes = <<>>
    /\ notes = <<>>
    /\ lookup = <<>>
    /\ posts = <<>>
    /\ files = <<>>
    /\ cursor = 0
    /\ footnote_result = NoResult
    /\ index_html = <<>>
    /\ feed_xml = <<>>

--------------------------------------------------------------------------
(* Sequence helpers *)

Range(s) == {s[i] : i \in 1..Len(s)}

Min(a, b) == IF a < b THEN a ELSE b

\* a slice that is not clipped to the sequence and repeats its last element
Slice_padded(s, a, b) ==
    [i \in 1..(IF b > a THEN b - a ELSE 0) |-> IF a + i <= Len(s) THEN s[a + i] ELSE s[Len(s)]]

\* Python's s[a:b] for 0 <= a, 0 <= b: clipped to the sequence, empty when a >= b
Slice(s, a, b) == SubSeq(s, a + 1, Min(b, Len(s)))

RECURSIVE Flatten(_)
Flatten(ss) == IF ss = <<>> THEN <<>> ELSE Head(ss) \o Flatten(Tail(ss))

RECURSIVE SumSeq(_)
SumSeq(s) == IF s = <<>> THEN 0 ELSE Head(s) + SumSeq(Tail(s))

RECURSIVE Pow2(_)
Pow2(n) == IF n = 0 THEN 1 ELSE 2 * Pow2(n - 1)

\* all sequences over S of length 0..n
SeqsUpTo(S, n) == UNION {[1..k -> S] : k \in 0..n}

--------------------------------------------------------------------------
(* export.py: ProtobufParser *)

\* A decoded field (field_number, wire_type, value).  The value of a
\* length-delimited field is a bytes object, every other value an int; the two
\* are kept in separate components (bval, ival) so that values of different
\* Python types are never compared.  A varint value is ival.  A fixed32/fixed64
\* value can exceed the integers of the model checker, so it is kept exactly, as
\* the 4 or 8 little-endian bytes struct.unpack read it from (bval); field_int
\* gives the integer.
Field(num, wt, ival, bval) == [num |-> num, wt |-> wt, ival |-> ival, bval |-> bval]

\* read_varint, from position p with the accumulated result and shift:
\* ok = FALSE is the ValueError "Unexpected end of data while reading varint"
RECURSIVE read_varint_loop(_, _, _, _)
read_varint_loop(d, p, result, shift) ==
    IF p >= Len(d)
    THEN [ok |-> FALSE, value |-> 0, pos |-> p]
    ELSE LET byte == d[p + 1]
             r    == result + (byte % 128) * Pow2(shift)   \* result |= (byte & 0x7F) << shift
         IN  IF byte < 128                                  \* (byte & 0x80) == 0
             THEN [ok |-> TRUE, value |-> r, pos |-> p + 1]
             ELSE read_varint_loop(d, p + 1, r, shift + 7)

read_varint(d, p) == read_varint_loop(d, p, 0, 0)

\* read_bytes with the bound check off by one (>= for >): a payload that ends
\* exactly at the end of the buffer is refused
read_bytes_off_by_one(d, p, length) ==
    IF p + length >= Len(d)
    THEN [ok |-> FALSE, value |-> <<>>, pos |-> p]
    ELSE [ok |-> TRUE, value |-> SubSeq(d, p + 1, p + length), pos |-> p + length]

\* read_bytes: ok = FALSE is the ValueError "Unexpected end of data while reading bytes"
read_bytes(d, p, length) ==
    IF p + length > Len(d)
    THEN [ok |-> FALSE, value |-> <<>>, pos |-> p]
    ELSE [ok |-> TRUE, value |-> SubSeq(d, p + 1, p + length), pos |-> p + length]

\* struct.unpack("<Q" / "<I", b)[0]: little-endian unsigned integer of the bytes
RECURSIVE unpack_le(_)
unpack_le(b) == IF b = <<>> THEN 0 ELSE Head(b) + 256 * unpack_le(Tail(b))

\* the integer value of a varint, fixed64 or fixed32 field
field_int(f) == IF f.wt = 0 THEN f.ival ELSE unpack_le(f.bval)

\* read_field: res = "none" is the (None, None, None) return at end of data,
\* res = "ValueError" / "struct.error" the exception raised by a read or by an
\* unknown wire type,
\* res = "field" a completely decoded field and the position after it.
NoField == Field(0, 0, 0, <<>>)

\* struct.unpack raises struct.error, which parse_all does not catch, when the
\* bytes it is given are not exactly `width` long
read_field_fixed(d, p, num, wt, width) ==
    LET b == read_bytes(d, p, width)
    IN  IF ~b.ok
        THEN [res |-> "ValueError", field |-> NoField, pos |-> b.pos]
        ELSE IF Len(b.value) # width
        THEN [res |-> "struct.error", field |-> NoField, pos |-> b.pos]
        ELSE [res |-> "field", field |-> Field(num, wt, 0, b.value), pos |-> b.pos]

read_field(d, p) ==
    LET \* the value of a field of the given number and wire type, read at q
        read_value(field_number, wire_type, q) ==
            CASE wire_type = 0 ->
                   LET v == read_varint(d, q)
                   IN  IF v.ok
                       THEN [res |-> "field", field |-> Field(field_number, 0, v.value, <<>>), pos |-> v.pos]
                       ELSE [res |-> "ValueError", field |-> NoField, pos |-> v.pos]
              [] wire_type = 1 -> read_field_fixed(d, q, field_number, 1, 8)
              [] wire_type = 2 ->
                   LET n == read_varint(d, q)
                   IN  IF ~n.ok
                       THEN [res |-> "ValueError", field |-> NoField, pos |-> n.pos]
                       ELSE LET b == read_bytes(d, n.pos, n.value)
                            IN  IF b.ok
                                THEN [res |-> "field", field |-> Field(field_number, 2, 0, b.value), pos |-> b.pos]
                                ELSE [res |-> "ValueError", field |-> NoField, pos |-> b.pos]
              [] wire_type = 5 -> read_field_fixed(d, q, field_number, 5, 4)
              [] OTHER -> [res |-> "ValueError", field |-> NoField, pos |-> q]
        \* field_number = tag_wire >> 3, wire_type = tag_wire & 0x07
        after_tag(tag) ==
            IF ~tag.ok
            THEN [res |-> "ValueError", field |-> NoField, pos |-> tag.pos]
            ELSE read_value(tag.value \div 8, tag.value % 8, tag.pos)
    IN  IF p >= Len(d)
        THEN [res |-> "none", field |-> NoField, pos |-> p]
        ELSE after_tag(read_varint(d, p))

\* parse_all as a function: the loop from position p with the fields so far
RECURSIVE parse_all_loop(_, _, _)
parse_all_loop(d, p, fs) ==
    IF ~(p < Len(d))
    THEN fs
    ELSE LET step(r) == IF r.res = "field"
                         THEN parse_all_loop(d, r.pos, Append(fs, r.field))
                         ELSE fs                            \* break
         IN  step(read_field(d, p))

\* parse_all_fields(data) = ProtobufParser(data).parse_all()
parse_all_fields(d) == parse_all_loop(d, 0, <<>>)

--------------------------------------------------------------------------
(* Specification SpecParser: ProtobufParser(data).parse_all() on byte buffers, *)
(* one action per outcome of a pass through the while loop.                  *)

MaxChunks == 3

\* Encoded fields, whole and broken, that the buffers are concatenated from.  A
\* broken piece followed by another piece is decoded as whatever its bytes
\* then mean, so the buffers are not only well-formed ones.
ParserChunks ==
    { <<8, 1>>,                          \* field 1, varint 1
      <<16, 172, 2>>,                    \* field 2, varint 300 (two bytes)
      <<128, 1, 5>>,                     \* field 16 (two-byte tag), varint 5
      <<18, 0>>,                         \* field 2, length-delimited, empty
      <<18, 2, 8, 1>>,                   \* field 2, length-delimited, 2 bytes
      <<13, 1, 0, 0, 0>>,                \* field 1, fixed32
      <<9, 1, 2, 0, 0, 0, 0, 0, 0>>,     \* field 1, fixed64
      <<136>>,                           \* a varint cut off after a continuation byte
      <<8>>,                             \* a varint field with no value
      <<18, 3, 65>>,                     \* length-delimited, payload shorter than declared
      <<13, 1, 0>>,                      \* fixed32 with 2 of 4 bytes
      <<9, 1>>,                          \* fixed64 with 1 of 8 bytes
      <<11>>,                            \* wire type 3
      <<12>>,                            \* wire type 4
      <<15>> }                           \* wire type 7

ParserBuffers == {Flatten(cs) : cs \in SeqsUpTo(ParserChunks, MaxChunks)}

NoRecord == [kind |-> "none"]

NoParsed == [status |-> "none"]

InitParser ==
    /\ data \in ParserBuffers
    /\ pos = 0
    /\ fields = <<>>
    /\ pc = "parse_all"
    /\ rec = NoRecord
    /\ parsed = NoParsed
    /\ blocks = <<>>
    /\ html = <<>>
    /\ PublishIdle

\* a pass through the loop of parse_all in which read_field returns a field
ParseField ==
    /\ pc = "parse_all"
    /\ pos < Len(data)
    /\ LET r == read_field(data, pos)
       IN  /\ r.res = "field"
           /\ fields' = Append(fields, r.field)
           /\ pos' = r.pos
    /\ UNCHANGED <<data, pc, rec, parsed, blocks, html, log, publish_vars>>

\* a pass in which read_field raises: ValueError is caught and breaks the loop,
\* any other exception leaves parse_all
ParseBreak ==
    /\ pc = "parse_all"
    /\ pos < Len(data)
    /\ LET r == read_field(data, pos)
       IN  /\ r.res # "field"
           /\ pos' = r.pos
           /\ pc' = IF r.res \in {"ValueError", "none"} THEN "returned" ELSE "raised"
    /\ UNCHANGED <<data, fields, rec, parsed, blocks, html, log, publish_vars>>

\* the loop condition fails: return fields
ParseReturn ==
    /\ pc = "parse_all"
    /\ ~(pos < Len(data))
    /\ pc' = "returned"
    /\ UNCHANGED <<data, pos, fields, rec, parsed, blocks, html, log, publish_vars>>

NextParser == ParseField \/ ParseBreak \/ ParseReturn

SpecParser == InitParser /\ [][NextParser]_vars

--------------------------------------------------------------------------
(* C1: what the wire format says the fields of a buffer are, stated from    *)
(* the format and not from the parser: 1-based byte indexes, no cursor.      *)

\* index of the last byte of the varint that starts at index i; 0 if the
\* buffer ends before a byte without the continuation bit
WireVarintEnd(d, i) ==
    IF \E j \in i..Len(d) : d[j] < 128
    THEN CHOOSE j \in i..Len(d) : d[j] < 128 /\ \A k \in i..(j - 1) : d[k] >= 128
    ELSE 0

RECURSIVE WireVarintValue(_, _, _)
WireVarintValue(d, i, j) ==
    IF i > j THEN 0 ELSE (d[i] % 128) + 128 * WireVarintValue(d, i + 1, j)

\* the complete field whose tag starts at index i: [ok, field, last], ok = FALSE
\* when no complete field starts there
WireNone == [ok |-> FALSE, field |-> NoField, last |-> 0]

WireFieldAt(d, i) ==
    LET te == WireVarintEnd(d, i)
    IN  IF te = 0 THEN WireNone
        ELSE
        LET tag == WireVarintValue(d, i, te)
            num == tag \div 8
            wt  == tag % 8
        IN  IF wt = 0 THEN
                LET ve == WireVarintEnd(d, te + 1)
                IN  IF ve = 0 THEN WireNone
                    ELSE [ok |-> TRUE, last |-> ve,
                          field |-> Field(num, 0, WireVarintValue(d, te + 1, ve), <<>>)]
            ELSE IF wt = 1 THEN
                IF te + 8 > Len(d) THEN WireNone
                ELSE [ok |-> TRUE, last |-> te + 8,
                      field |-> Field(num, 1, 0, SubSeq(d, te + 1, te + 8))]
            ELSE IF wt = 5 THEN
                IF te + 4 > Len(d) THEN WireNone
                ELSE [ok |-> TRUE, last |-> te + 4,
                      field |-> Field(num, 5, 0, SubSeq(d, te + 1, te + 4))]
            ELSE IF wt = 2 THEN
                LET le == WireVarintEnd(d, te + 1)
                IN  IF le = 0 THEN WireNone
                    ELSE LET n == WireVarintValue(d, te + 1, le)
                         IN  IF le + n > Len(d) THEN WireNone
                             ELSE [ok |-> TRUE, last |-> le + n,
                                   field |-> Field(num, 2, 0, SubSeq(d, le + 1, le + n))]
            ELSE WireNone

\* the fields that decode completely, from index i up to the first that does not
RECURSIVE WireFieldsFrom(_, _)
WireFieldsFrom(d, i) ==
    IF i > Len(d) THEN <<>>
    ELSE LET f == WireFieldAt(d, i)
         IN  IF f.ok THEN <<f.field>> \o WireFieldsFrom(d, f.last + 1) ELSE <<>>

IsPrefix(s, t) == Len(s) <= Len(t) /\ SubSeq(t, 1, Len(s)) = s

\* C1: parse_all never raises; what it returns is exactly the sequence of the
\* fields that decode completely before the first read failure, and while it
\* runs the list it holds is a prefix of that sequence (decoded fields are kept,
\* in order).
C1_ParseAllTolerant ==
    /\ pc # "raised"
    /\ pc = "parse_all" => IsPrefix(fields, WireFieldsFrom(data, 1))
    /\ pc = "returned" => fields = WireFieldsFrom(data, 1)

\* index of the last byte of the last field that decodes completely from index i
RECURSIVE WireConsumedFrom(_, _)
WireConsumedFrom(d, i) ==
    IF i > Len(d) THEN i - 1
    ELSE LET f == WireFieldAt(d, i)
         IN  IF f.ok THEN WireConsumedFrom(d, f.last + 1) ELSE i - 1

\* C1 witness: parse_all has returned two fields of a buffer whose remaining
\* bytes (a cut-off varint, a short payload or an unknown wire type) failed to decode
C1_Witness ==
    /\ pc = "returned"
    /\ Len(fields) = 2
    /\ WireConsumedFrom(data, 1) < Len(data)

--------------------------------------------------------------------------
(* Python str and bytes operations the pipeline uses *)

NL == 10      \* "\n"

\* bytes.decode("utf-8"), strict: ok = FALSE is UnicodeDecodeError
IsCont(b, lo, hi) == b >= lo /\ b <= hi

RECURSIVE utf8_decode_from(_, _, _)
utf8_decode_from(b, i, acc) ==
    IF i > Len(b) THEN [ok |-> TRUE, text |-> acc]
    ELSE
    LET b0   == b[i]
        fail == [ok |-> FALSE, text |-> <<>>]
        has(n) == i + n <= Len(b)
    IN  IF b0 < 128 THEN utf8_decode_from(b, i + 1, Append(acc, b0))
        ELSE IF b0 >= 194 /\ b0 <= 223 THEN
            IF has(1) /\ IsCont(b[i + 1], 128, 191)
            THEN utf8_decode_from(b, i + 2, Append(acc, (b0 - 192) * 64 + (b[i + 1] - 128)))
            ELSE fail
        ELSE IF b0 >= 224 /\ b0 <= 239 THEN
            IF /\ has(2)
               /\ IsCont(b[i + 1], IF b0 = 224 THEN 160 ELSE 128, IF b0 = 237 THEN 159 ELSE 191)
               /\ IsCont(b[i + 2], 128, 191)
            THEN utf8_decode_from(b, i + 3,
                     Append(acc, (b0 - 224) * 4096 + (b[i + 1] - 128) * 64 + (b[i + 2] - 128)))
            ELSE fail
        ELSE IF b0 >= 240 /\ b0 <= 244 THEN
            IF /\ has(3)
               /\ IsCont(b[i + 1], IF b0 = 240 THEN 144 ELSE 128, IF b0 = 244 THEN 143 ELSE 191)
               /\ IsCont(b[i + 2], 128, 191)
               /\ IsCont(b[i + 3], 128, 191)
            THEN utf8_decode_from(b, i + 4,
                     Append(acc, (b0 - 240) * 262144 + (b[i + 1] - 128) * 4096
                                 + (b[i + 2] - 128) * 64 + (b[i + 3] - 128)))
            ELSE fail
        ELSE fail

utf8_decode(b) == utf8_decode_from(b, 1, <<>>)

\* index of the first occurrence of the string sep in s at or after index i; 0 if none
RECURSIVE FindFrom(_, _, _)
FindFrom(s, sep, i) ==
    IF i + Len(sep) - 1 > Len(s) THEN 0
    ELSE IF SubSeq(s, i, i + Len(sep) - 1) = sep THEN i
    ELSE FindFrom(s, sep, i + 1)

StartsWith(s, prefix) == Len(s) >= Len(prefix) /\ SubSeq(s, 1, Len(prefix)) = prefix

\* str.split(sep): the list of the pieces between the non-overlapping occurrences
\* of sep, scanned left to right
RECURSIVE Split(_, _)
Split(s, sep) ==
    LET i == FindFrom(s, sep, 1)
    IN  IF i = 0 THEN <<s>>
        ELSE <<SubSeq(s, 1, i - 1)>> \o Split(SubSeq(s, i + Len(sep), Len(s)), sep)

\* str.split(sep, 1): at most one split
Split1(s, sep) ==
    LET i == FindFrom(s, sep, 1)
    IN  IF i = 0 THEN <<s>>
        ELSE <<SubSeq(s, 1, i - 1), SubSeq(s, i + Len(sep), Len(s))>>

\* str.replace(old, new)
RECURSIVE Replace(_, _, _)
Replace(s, old, new) ==
    LET i == FindFrom(s, old, 1)
    IN  IF i = 0 THEN s
        ELSE SubSeq(s, 1, i - 1) \o new \o Replace(SubSeq(s, i + Len(old), Len(s)), old, new)

\* sep.join(parts)
RECURSIVE Join(_, _)
Join(parts, sep) ==
    IF parts = <<>> THEN <<>>
    ELSE IF Len(parts) = 1 THEN parts[1]
    ELSE parts[1] \o sep \o Join(Tail(parts), sep)

\* the characters str.strip() removes (str.isspace)
IsSpace(c) ==
    \/ c \in 9..13 \/ c \in 28..32 \/ c = 133 \/ c = 160 \/ c = 5760
    \/ c \in 8192..8202 \/ c \in {8232, 8233, 8239, 8287, 12288}

\* s.rstrip("\n")
RECURSIVE rstrip_newlines(_)
rstrip_newlines(s) ==
    IF s # <<>> /\ s[Len(s)] = NL THEN rstrip_newlines(SubSeq(s, 1, Len(s) - 1)) ELSE s

RECURSIVE rstrip(_)
rstrip(s) == IF s # <<>> /\ IsSpace(s[Len(s)]) THEN rstrip(SubSeq(s, 1, Len(s) - 1)) ELSE s

RECURSIVE lstrip(_)
lstrip(s) == IF s # <<>> /\ IsSpace(s[1]) THEN lstrip(Tail(s)) ELSE s

\* s.strip()
strip(s) == lstrip(rstrip(s))

\* str.lower() on the characters of the model: ASCII letters (every other
\* character used in the model is its own lower case)
lower(s) == [i \in 1..Len(s) |-> IF s[i] >= 65 /\ s[i] <= 90 THEN s[i] + 32 ELSE s[i]]

--------------------------------------------------------------------------
(* export.py: schema navigation and style-run extraction *)

PARA_STYLE_NORMAL == 0
PARA_STYLE_HEADING == 1
PARA_STYLE_SUBHEADING == 2
PARA_STYLE_MONO == 4
PARA_STYLE_BULLET_LIST == 100
PARA_STYLE_DASH_LIST == 101
PARA_STYLE_NUMBER_LIST == 102

TEXT_STYLE_NORMAL == 0
TEXT_STYLE_BOLD == 1
TEXT_STYLE_ITALIC == 2

\* get_note_content_fields: the first field 3 (length-delimited) found in a
\* root field 2 (length-delimited), parsed; [] if there is none
RECURSIVE first_note_content(_)
first_note_content(doc_fields) ==
    IF doc_fields = <<>> THEN [found |-> FALSE, fields |-> <<>>]
    ELSE IF Head(doc_fields).num = 3 /\ Head(doc_fields).wt = 2
    THEN [found |-> TRUE, fields |-> parse_all_fields(Head(doc_fields).bval)]
    ELSE first_note_content(Tail(doc_fields))

RECURSIVE note_content_of_root(_)
note_content_of_root(root_fields) ==
    IF root_fields = <<>> THEN <<>>
    ELSE IF Head(root_fields).num = 2 /\ Head(root_fields).wt = 2
    THEN LET found_or_next(c) ==
                 IF c.found THEN c.fields ELSE note_content_of_root(Tail(root_fields))
         IN  found_or_next(first_note_content(parse_all_fields(Head(root_fields).bval)))
    ELSE note_content_of_root(Tail(root_fields))

\* the fields of the root instead of those of the note content
get_note_content_fields_of_root(d) == parse_all_fields(d)

get_note_content_fields(d) == note_content_of_root(parse_all_fields(d))

\* extract_main_text: the first field 2 (length-delimited) of the note content
\* that decodes as UTF-8; "" if none does
RECURSIVE main_text_of(_)
main_text_of(note_fields) ==
    IF note_fields = <<>> THEN <<>>
    ELSE IF Head(note_fields).num = 2 /\ Head(note_fields).wt = 2
            /\ utf8_decode(Head(note_fields).bval).ok
    THEN utf8_decode(Head(note_fields).bval).text
    ELSE main_text_of(Tail(note_fields))

extract_main_text(d) == main_text_of(get_note_content_fields(d))

\* A value the code stores without looking at its type.  A bytes object (the
\* value of a length-delimited field) stored where an int is expected equals no
\* integer; NotInt stands for it (varint and fixed values are never negative).
NotInt == 0 - 1

PyInt(f) == IF f.wt = 2 THEN NotInt ELSE field_int(f)

\* bool(value): a non-zero int, a non-empty bytes object
PyBool(f) == IF f.wt = 2 THEN f.bval # <<>> ELSE field_int(f) # 0

\* Optional[str]: <<>> is None, <<s>> is the string s
None == <<>>

Some(s) == <<s>>

\* the run dict before any field is read (lines 305-314)
DefaultRun ==
    [length |-> 0, para_style |-> 0, text_style |-> 0, is_blockquote |-> FALSE,
     is_superscript |-> FALSE, is_underline |-> FALSE, is_strikethrough |-> FALSE,
     link_url |-> None, raised |-> FALSE]

\* the loop over the character attributes (field 2 of a run)
RECURSIVE read_attrs(_, _)
read_attrs(attrs, run) ==
    IF attrs = <<>> THEN run
    ELSE
    LET a == Head(attrs)
        r == CASE a.num = 1 -> [run EXCEPT !.para_style = PyInt(a)]
               [] a.num = 5 -> [run EXCEPT !.is_underline = PyBool(a)]
               [] a.num = 6 -> [run EXCEPT !.is_strikethrough = PyBool(a)]
               [] a.num = 8 -> [run EXCEPT !.is_blockquote = PyBool(a)]
               [] OTHER -> run
    IN  read_attrs(Tail(attrs), r)

\* the loop over the fields of one run record.  raised: parse_all_fields is
\* given the int of a field 2 that is not length-delimited, and len() of an int
\* raises TypeError.
RECURSIVE read_run(_, _)
read_run(style_fields, run) ==
    IF style_fields = <<>> \/ run.raised THEN run
    ELSE
    LET s == Head(style_fields)
        r == CASE s.num = 1 -> [run EXCEPT !.length = PyInt(s)]
               [] s.num = 2 -> IF s.wt = 2
                               THEN read_attrs(parse_all_fields(s.bval), run)
                               ELSE [run EXCEPT !.raised = TRUE]
               [] s.num = 5 -> [run EXCEPT !.text_style = PyInt(s)]
               [] s.num = 8 -> [run EXCEPT !.is_superscript = PyBool(s)]
               [] s.num = 9 -> IF s.wt = 2 /\ utf8_decode(s.bval).ok
                               THEN [run EXCEPT !.link_url = Some(utf8_decode(s.bval).text)]
                               ELSE run
               [] OTHER -> run
    IN  read_run(Tail(style_fields), r)

StyleRun(start, length, run_text, run) ==
    [start |-> start, length |-> length, text |-> run_text,
     paragraph_style |-> run.para_style, text_style |-> run.text_style,
     is_blockquote |-> run.is_blockquote, is_superscript |-> run.is_superscript,
     is_underline |-> run.is_underline, is_strikethrough |-> run.is_strikethrough,
     link_url |-> run.link_url]

\* the cursor guard without the test of the length: zero-length runs are kept
run_is_kept_any_length(length, p, text) == p < Len(text)

\* the cursor guard requiring the whole run inside the text: a run that ends at
\* the end of the text is dropped
run_is_kept_inside(length, p, text) == length > 0 /\ p + length < Len(text)

\* the cursor guard that keeps a run only while the cursor is at 0
run_is_kept_at_start(length, p, text) == length > 0 /\ p = 0

\* the cursor guard of line 342
run_is_kept(length, p, text) == length > 0 /\ p < Len(text)

\* extract_style_runs, the loop over the note content fields with the list and
\* the cursor so far.  raised: a TypeError left the function, from read_run or
\* from `length > 0` on a length that is a bytes object.
RECURSIVE extract_loop(_, _, _, _)
extract_loop(note_fields, text, style_runs, p) ==
    IF note_fields = <<>> THEN [raised |-> FALSE, runs |-> style_runs]
    ELSE
    LET f == Head(note_fields)
    IN  IF ~(f.num = 5 /\ f.wt = 2)
        THEN extract_loop(Tail(note_fields), text, style_runs, p)
        ELSE
        LET append_run(run, length) ==
                IF run.raised \/ length = NotInt
                THEN [raised |-> TRUE, runs |-> <<>>]
                ELSE IF run_is_kept(length, p, text)
                THEN extract_loop(Tail(note_fields), text,
                         Append(style_runs, StyleRun(p, length, Slice(text, p, p + length), run)),
                         p + length)
                ELSE extract_loop(Tail(note_fields), text, style_runs, p)
            with_length(run) == append_run(run, run.length)
        IN  with_length(read_run(parse_all_fields(f.bval), DefaultRun))

extract_style_runs(d, text) == extract_loop(get_note_content_fields(d), text, <<>>, 0)

--------------------------------------------------------------------------
(* export.py: parse_note_content *)

\* The string literals of the code, as code points

APPLENOTES_PREFIX == <<97, 112, 112, 108, 101, 110, 111, 116, 101, 115, 58, 110, 111, 116, 101, 47>>   \* 'applenotes:note/'

AMP == <<38>>   \* '&'

LT == <<60>>   \* '<'

GT == <<62>>   \* '>'

AMP_ENTITY == <<38, 97, 109, 112, 59>>   \* '&amp;'

LT_ENTITY == <<38, 108, 116, 59>>   \* '&lt;'

GT_ENTITY == <<38, 103, 116, 59>>   \* '&gt;'

SUP_OPEN == <<60, 115, 117, 112, 62>>   \* '<sup>'

SUP_CLOSE == <<60, 47, 115, 117, 112, 62>>   \* '</sup>'

STRONG_OPEN == <<60, 115, 116, 114, 111, 110, 103, 62>>   \* '<strong>'

STRONG_CLOSE == <<60, 47, 115, 116, 114, 111, 110, 103, 62>>   \* '</strong>'

EM_OPEN == <<60, 101, 109, 62>>   \* '<em>'

EM_CLOSE == <<60, 47, 101, 109, 62>>   \* '</em>'

U_OPEN == <<60, 117, 62>>   \* '<u>'

U_CLOSE == <<60, 47, 117, 62>>   \* '</u>'

S_OPEN == <<60, 115, 62>>   \* '<s>'

S_CLOSE == <<60, 47, 115, 62>>   \* '</s>'

A_OPEN_SLUG == <<60, 97, 32, 104, 114, 101, 102, 61, 34, 47>>   \* '<a href="/'

A_HTML_CLOSE_QUOTE == <<46, 104, 116, 109, 108, 34, 62>>   \* '.html">'

A_OPEN == <<60, 97, 32, 104, 114, 101, 102, 61, 34>>   \* '<a href="'

A_CLOSE_QUOTE == <<34, 62>>   \* '">'

A_CLOSE == <<60, 47, 97, 62>>   \* '</a>'

P_OPEN == <<60, 112, 62>>   \* '<p>'

P_CLOSE == <<60, 47, 112, 62>>   \* '</p>'

H2_OPEN == <<60, 104, 50, 62>>   \* '<h2>'

H2_CLOSE == <<60, 47, 104, 50, 62>>   \* '</h2>'

H3_OPEN == <<60, 104, 51, 62>>   \* '<h3>'

H3_CLOSE == <<60, 47, 104, 51, 62>>   \* '</h3>'

PRE_CODE_OPEN == <<60, 112, 114, 101, 62, 60, 99, 111, 100, 101, 62>>   \* '<pre><code>'

PRE_CODE_CLOSE == <<60, 47, 99, 111, 100, 101, 62, 60, 47, 112, 114, 101, 62>>   \* '</code></pre>'

BLOCKQUOTE_OPEN == <<60, 98, 108, 111, 99, 107, 113, 117, 111, 116, 101, 62, 60, 112, 62>>   \* '<blockquote><p>'

BLOCKQUOTE_CLOSE == <<60, 47, 112, 62, 60, 47, 98, 108, 111, 99, 107, 113, 117, 111, 116, 101, 62>>   \* '</p></blockquote>'

P_BREAK == <<60, 47, 112, 62, 60, 112, 62>>   \* '</p><p>'

BR == <<60, 98, 114, 62>>   \* '<br>'

LI_OPEN == <<60, 108, 105, 62>>   \* '<li>'

LI_CLOSE == <<60, 47, 108, 105, 62>>   \* '</li>'

UL_OPEN == <<60, 117, 108, 62, 10>>   \* '<ul>\n'

UL_CLOSE == <<10, 60, 47, 117, 108, 62>>   \* '\n</ul>'

OL_OPEN == <<60, 111, 108, 62, 10>>   \* '<ol>\n'

OL_CLOSE == <<10, 60, 47, 111, 108, 62>>   \* '\n</ol>'

SPACE == <<32>>   \* ' '

QUESTION == <<63>>   \* '?'

SLASH == <<47>>   \* '/'

\* truthiness of an Optional[str]: not None and not ""
Truthy(opt) == opt # None /\ opt[1] # <<>>

Last(s) == s[Len(s)]

\* url.split("?")[0].split("/")[-1]
link_note_id(url) == Last(Split(Split(url, QUESTION)[1], SLASH))

NoteLink(url, note_id, text) == [url |-> url, note_id |-> note_id, text |-> text]

\* the loop of lines 388-396 over the style runs
RECURSIVE find_note_links(_)
find_note_links(style_runs) ==
    IF style_runs = <<>> THEN <<>>
    ELSE
    LET run == Head(style_runs)
    IN  (IF Truthy(run.link_url) /\ StartsWith(run.link_url[1], APPLENOTES_PREFIX)
         THEN <<NoteLink(run.link_url[1], link_note_id(run.link_url[1]), run.text)>>
         ELSE <<>>) \o find_note_links(Tail(style_runs))

ParsedNote(status, title, body, style_runs, note_links) ==
    [status |-> status, title |-> title, text_content |-> body,
     style_runs |-> style_runs, note_links |-> note_links]

\* parse_note_content.  gz is what gzip.decompress does with the record: "ok"
\* (d is the decompressed data) or the exception it raises: "BadGzipFile" (bad
\* magic number, method, checksum or length, bytes after the stream), "EOFError"
\* (the data end before the end-of-stream marker), "zlib.error" (the deflate
\* stream is corrupted).  The except clause of line 367 names gzip.BadGzipFile
\* only.  status "raised": an exception left the function.
parse_note_content(gz, d) ==
    IF gz = "BadGzipFile" THEN ParsedNote("ok", <<>>, <<>>, <<>>, <<>>)
    ELSE IF gz # "ok" THEN ParsedNote("raised", <<>>, <<>>, <<>>, <<>>)
    ELSE
    LET note(lines, extracted) ==
            IF extracted.raised
            THEN ParsedNote("raised", <<>>, <<>>, <<>>, <<>>)
            ELSE ParsedNote("ok", lines[1], IF Len(lines) > 1 THEN lines[2] ELSE <<>>,
                            extracted.runs, find_note_links(extracted.runs))
        with_text(text_content) ==
            note(Split1(text_content, <<NL>>), extract_style_runs(d, text_content))
    IN  with_text(extract_main_text(d))

--------------------------------------------------------------------------
(* publish.py: block segmentation, run merging, rendering *)

is_bold(run) == run.text_style = TEXT_STYLE_BOLD

is_italic(run) == run.text_style = TEXT_STYLE_ITALIC

\* escape_html with "&" replaced last: the "&" of "&lt;" is escaped again
escape_html_amp_last(text) ==
    Replace(Replace(Replace(text, LT, LT_ENTITY), GT, GT_ENTITY), AMP, AMP_ENTITY)

\* escape_html: the three replacements, "&" first
escape_html(text) ==
    Replace(Replace(Replace(text, AMP, AMP_ENTITY), LT, LT_ENTITY), GT, GT_ENTITY)

\* the signature without the bold flag
get_run_format_key_no_bold(run) ==
    <<FALSE, is_italic(run), run.is_superscript, run.is_underline,
      run.is_strikethrough, run.link_url>>

get_run_format_key(run) ==
    <<is_bold(run), is_italic(run), run.is_superscript, run.is_underline,
      run.is_strikethrough, run.link_url>>

get_block_type(run) ==
    IF run.is_blockquote THEN "blockquote"
    ELSE IF run.paragraph_style = PARA_STYLE_HEADING THEN "h1"
    ELSE IF run.paragraph_style = PARA_STYLE_SUBHEADING THEN "h2"
    ELSE IF run.paragraph_style = PARA_STYLE_MONO THEN "code"
    ELSE IF run.paragraph_style = PARA_STYLE_BULLET_LIST THEN "ul"
    ELSE IF run.paragraph_style = PARA_STYLE_DASH_LIST THEN "ul-dash"
    ELSE IF run.paragraph_style = PARA_STYLE_NUMBER_LIST THEN "ol"
    ELSE "normal"

\* the two tests of lines 334 and 340 that make the loop skip a run
in_title_span(run, title_end_pos) == run.start + run.length <= title_end_pos

is_skipped(run, title_end_pos) ==
    in_title_span(run, title_end_pos) \/ get_block_type(run) = "h1"

\* current_block: open = FALSE is None
NoBlock == [open |-> FALSE, type |-> "", runs |-> <<>>]

Block(type, runs) == [type |-> type, runs |-> runs]

\* a new block at every run, whatever its type
starts_new_block_always(current, block_type) == TRUE

\* line 344: whether the run opens a new block
starts_new_block(current, block_type) == ~current.open \/ block_type # current.type

\* the loop of lines 331-349 with the blocks and the current block so far,
\* then lines 352-353
RECURSIVE group_runs(_, _, _, _)
group_runs(style_runs, title_end_pos, blks, current) ==
    IF style_runs = <<>>
    THEN IF current.open /\ current.runs # <<>>
         THEN Append(blks, Block(current.type, current.runs))
         ELSE blks
    ELSE
    LET run == Head(style_runs)
        block_type == get_block_type(run)
    IN  IF is_skipped(run, title_end_pos)
        THEN group_runs(Tail(style_runs), title_end_pos, blks, current)
        ELSE IF starts_new_block(current, block_type)
        THEN group_runs(Tail(style_runs), title_end_pos,
                 IF current.open /\ current.runs # <<>>
                 THEN Append(blks, Block(current.type, current.runs)) ELSE blks,
                 [open |-> TRUE, type |-> block_type, runs |-> <<run>>])
        ELSE group_runs(Tail(style_runs), title_end_pos, blks,
                 [current EXCEPT !.runs = Append(@, run)])

MergedRun(text, format_key, run) == [text |-> text, format_key |-> format_key, run |-> run]

\* whether a run is fused into the current merged run (line 388)
same_format(format_key, current_key) == format_key = current_key

\* the loop closing the current entry as soon as one run has been fused into it
RECURSIVE merge_loop_flush(_, _, _, _)
merge_loop_flush(runs, full_text, merged, cur) ==
    IF runs = <<>> THEN merged \o cur
    ELSE
    LET run == Head(runs)
        run_text == Slice(full_text, run.start, run.start + run.length)
        format_key == get_run_format_key(run)
    IN  IF cur = <<>>
        THEN merge_loop_flush(Tail(runs), full_text, merged,
                              <<MergedRun(run_text, format_key, run)>>)
        ELSE IF same_format(format_key, cur[1].format_key)
        THEN merge_loop_flush(Tail(runs), full_text,
                              merged \o <<[cur[1] EXCEPT !.text = @ \o run_text]>>, <<>>)
        ELSE merge_loop_flush(Tail(runs), full_text, merged \o cur,
                              <<MergedRun(run_text, format_key, run)>>)

\* merge_runs_for_rendering: the loop with the merged list and the current
\* entry so far (cur = <<>> is None), then lines 401-402
RECURSIVE merge_loop(_, _, _, _)
merge_loop(runs, full_text, merged, cur) ==
    IF runs = <<>> THEN merged \o cur
    ELSE
    LET run == Head(runs)
        run_text == Slice(full_text, run.start, run.start + run.length)
        format_key == get_run_format_key(run)
    IN  IF cur = <<>>
        THEN merge_loop(Tail(runs), full_text, merged, <<MergedRun(run_text, format_key, run)>>)
        ELSE IF same_format(format_key, cur[1].format_key)
        THEN merge_loop(Tail(runs), full_text, merged,
                        <<[cur[1] EXCEPT !.text = @ \o run_text]>>)
        ELSE merge_loop(Tail(runs), full_text, merged \o cur,
                        <<MergedRun(run_text, format_key, run)>>)

merge_runs_for_rendering(runs, full_text) ==
    IF runs = <<>> THEN <<>> ELSE merge_loop(runs, full_text, <<>>, <<>>)

\* the slug of the last entry whose identifier is note_id as it is written
RECURSIVE find_target_slug_exact(_, _)
find_target_slug_exact(note_lookup, note_id) ==
    IF note_lookup = <<>> THEN None
    ELSE IF find_target_slug_exact(Tail(note_lookup), note_id) # None
    THEN find_target_slug_exact(Tail(note_lookup), note_id)
    ELSE IF Head(note_lookup).identifier = note_id
    THEN Some(Head(note_lookup).slug)
    ELSE None

\* A NoteLookup table is the dict note_lookup in insertion order: a sequence
\* of [title, slug, identifier].  The slug of the first entry whose lower-cased
\* identifier is note_id; None if there is none.
RECURSIVE find_target_slug(_, _)
find_target_slug(note_lookup, note_id) ==
    IF note_lookup = <<>> THEN None
    ELSE IF lower(Head(note_lookup).identifier) = note_id
    THEN Some(Head(note_lookup).slug)
    ELSE find_target_slug(Tail(note_lookup), note_id)

Wrap(flag, open, close, h) == IF flag THEN open \o h \o close ELSE h

\* lines 449-463: the link around the formatted text
wrap_link(run, h, note_lookup) ==
    IF ~Truthy(run.link_url) THEN h
    ELSE LET url == run.link_url[1]
         IN  IF StartsWith(url, APPLENOTES_PREFIX)
             THEN LET target_slug == find_target_slug(note_lookup, lower(link_note_id(url)))
                  IN  IF Truthy(target_slug)
                      THEN A_OPEN_SLUG \o target_slug[1] \o A_HTML_CLOSE_QUOTE \o h \o A_CLOSE
                      ELSE h
             ELSE A_OPEN \o url \o A_CLOSE_QUOTE \o h \o A_CLOSE

\* the inline tags with <sup> outside <strong> and <em>
wrap_inline_sup_outside(run, h) ==
    Wrap(run.is_strikethrough, S_OPEN, S_CLOSE,
      Wrap(run.is_underline, U_OPEN, U_CLOSE,
        Wrap(run.is_superscript, SUP_OPEN, SUP_CLOSE,
          Wrap(is_italic(run), EM_OPEN, EM_CLOSE,
            Wrap(is_bold(run), STRONG_OPEN, STRONG_CLOSE, h)))))

\* lines 433-447: the inline tags, innermost first
wrap_inline(run, h) ==
    Wrap(run.is_strikethrough, S_OPEN, S_CLOSE,
      Wrap(run.is_underline, U_OPEN, U_CLOSE,
        Wrap(is_italic(run), EM_OPEN, EM_CLOSE,
          Wrap(is_bold(run), STRONG_OPEN, STRONG_CLOSE,
            Wrap(run.is_superscript, SUP_OPEN, SUP_CLOSE, h)))))

has_inline_formatting(run) ==
    \/ run.is_superscript \/ is_bold(run) \/ is_italic(run)
    \/ run.is_underline \/ run.is_strikethrough \/ Truthy(run.link_url)

format_merged_run_as_html(merged_run, note_lookup, slug) ==
    LET run == merged_run.run
        stripped == IF has_inline_formatting(run)
                    THEN rstrip_newlines(merged_run.text) ELSE merged_run.text
        trailing_newlines == SubSeq(merged_run.text, Len(stripped) + 1, Len(merged_run.text))
    IN  wrap_link(run, wrap_inline(run, escape_html(stripped)), note_lookup) \o trailing_newlines

\* item.strip() for item in content.split("\n") if item.strip()
RECURSIVE stripped_nonempty(_)
stripped_nonempty(parts) ==
    IF parts = <<>> THEN <<>>
    ELSE (IF strip(Head(parts)) # <<>> THEN <<strip(Head(parts))>> ELSE <<>>)
         \o stripped_nonempty(Tail(parts))

\* the <li> elements without the filter on empty lines: an empty line becomes an
\* empty item
list_items_keep_blank(content) ==
    Join([i \in 1..Len(Split(content, <<NL>>)) |->
              LI_OPEN \o strip(Split(content, <<NL>>)[i]) \o LI_CLOSE], <<NL>>)

\* lines 505-513: the <li> elements of a list block
list_items(content) ==
    Join([i \in 1..Len(stripped_nonempty(Split(content, <<NL>>))) |->
              LI_OPEN \o stripped_nonempty(Split(content, <<NL>>))[i] \o LI_CLOSE], <<NL>>)

\* the <p> elements without the replacement of the newlines inside a paragraph
p_tags_keep_newlines(content) ==
    LET ps == stripped_nonempty(Split(content, <<NL, NL>>))
    IN  [i \in 1..Len(ps) |-> P_OPEN \o ps[i] \o P_CLOSE]

\* lines 517-525: the <p> elements of a normal block
p_tags(content) ==
    LET ps == stripped_nonempty(Split(content, <<NL, NL>>))
    IN  [i \in 1..Len(ps) |-> P_OPEN \o Replace(ps[i], <<NL>>, SPACE) \o P_CLOSE]

\* lines 483-491: the content of a block from its merged runs
block_content(merged_runs, note_lookup, slug) ==
    rstrip_newlines(Flatten([i \in 1..Len(merged_runs) |->
        format_merged_run_as_html(merged_runs[i], note_lookup, slug)]))

render_block(block, full_text, note_lookup, slug) ==
    IF block.runs = <<>> THEN <<>>
    ELSE
    LET content == block_content(merge_runs_for_rendering(block.runs, full_text),
                                 note_lookup, slug)
        t == block.type
    IN  IF t = "h2" THEN H2_OPEN \o strip(content) \o H2_CLOSE
        ELSE IF t = "h3" THEN H3_OPEN \o strip(content) \o H3_CLOSE
        ELSE IF t = "code" THEN PRE_CODE_OPEN \o content \o PRE_CODE_CLOSE
        ELSE IF t = "blockquote"
        THEN BLOCKQUOTE_OPEN \o Replace(Replace(content, <<NL, NL>>, P_BREAK), <<NL>>, BR)
             \o BLOCKQUOTE_CLOSE
        ELSE IF t \in {"ul", "ul-dash"} THEN UL_OPEN \o list_items(content) \o UL_CLOSE
        ELSE IF t = "ol" THEN OL_OPEN \o list_items(content) \o OL_CLOSE
        ELSE Join(p_tags(content), <<NL>>)

\* lines 322-325: the body of a note without style runs
plain_paragraphs(text_content) ==
    LET ps == stripped_nonempty(Split(text_content, <<NL, NL>>))
    IN  Join([i \in 1..Len(ps) |-> P_OPEN \o escape_html(ps[i]) \o P_CLOSE], <<NL, NL>>)

full_text_of(parsed_note) == parsed_note.title \o <<NL>> \o parsed_note.text_content

title_end_pos_of(parsed_note) == Len(parsed_note.title) + 1

\* the blocks convert_note_to_html builds (lines 327-353)
blocks_of(parsed_note) ==
    IF parsed_note.style_runs = <<>> THEN <<>>
    ELSE group_runs(parsed_note.style_runs, title_end_pos_of(parsed_note), <<>>, NoBlock)

RECURSIVE nonempty_only(_)
nonempty_only(parts) ==
    IF parts = <<>> THEN <<>>
    ELSE (IF Head(parts) # <<>> THEN <<Head(parts)>> ELSE <<>>) \o nonempty_only(Tail(parts))

convert_note_to_html(parsed_note, note_lookup, slug) ==
    IF parsed_note.style_runs = <<>>
    THEN plain_paragraphs(parsed_note.text_content)
    ELSE LET blks == blocks_of(parsed_note)
         IN  Join(nonempty_only([i \in 1..Len(blks) |->
                      render_block(blks[i], full_text_of(parsed_note), note_lookup, slug)]),
                  <<NL, NL>>)

--------------------------------------------------------------------------
(* The records under test.  A record is described by its main text, its run   *)
(* records (declared length, style, encoding) and its nesting, and is encoded *)
(* to bytes in the layout the docstrings of get_note_content_fields and       *)
(* extract_style_runs give; the pipeline then decodes those bytes.            *)

RECURSIVE EncVarint(_)
EncVarint(n) == IF n < 128 THEN <<n>> ELSE <<128 + (n % 128)>> \o EncVarint(n \div 128)

EncTag(num, wt) == EncVarint(num * 8 + wt)

EncVarintField(num, n) == EncTag(num, 0) \o EncVarint(n)

EncBytesField(num, b) == EncTag(num, 2) \o EncVarint(Len(b)) \o b

EncFixed32Field(num, n) == EncTag(num, 5) \o <<n % 256, (n \div 256) % 256, 0, 0>>

\* UTF-8 of code points below 0x800
RECURSIVE Utf8Encode(_)
Utf8Encode(s) ==
    IF s = <<>> THEN <<>>
    ELSE (IF Head(s) < 128 THEN <<Head(s)>>
          ELSE <<192 + (Head(s) \div 64), 128 + (Head(s) % 64)>>) \o Utf8Encode(Tail(s))

URL_INTERNAL == <<97, 112, 112, 108, 101, 110, 111, 116, 101, 115, 58, 110, 111, 116, 101, 47, 65, 66, 63, 120>>   \* "applenotes:note/AB?x"

URL_UNKNOWN == <<97, 112, 112, 108, 101, 110, 111, 116, 101, 115, 58, 110, 111, 116, 101, 47, 122, 122>>   \* "applenotes:note/zz"

URL_EXTERNAL == <<104, 116, 116, 112, 58, 47, 47, 101>>   \* "http://e"

URL_LOWER_CD == <<97, 112, 112, 108, 101, 110, 111, 116, 101, 115, 58, 110, 111, 116, 101, 47, 99, 100>>   \* "applenotes:note/cd"

URL_LOWER_EF == <<97, 112, 112, 108, 101, 110, 111, 116, 101, 115, 58, 110, 111, 116, 101, 47, 101, 102>>   \* "applenotes:note/ef"

\* The formatting of a run record, by name
RunAttrs(para, text_style, quote, sup, ul, strike, link) ==
    [para |-> para, text_style |-> text_style, quote |-> quote, sup |-> sup,
     ul |-> ul, strike |-> strike, link |-> link]

StyleAttrs(style) ==
    CASE style = "plain"      -> RunAttrs(PARA_STYLE_NORMAL, TEXT_STYLE_NORMAL, FALSE, FALSE, FALSE, FALSE, None)
      [] style = "bold"       -> RunAttrs(PARA_STYLE_NORMAL, TEXT_STYLE_BOLD, FALSE, FALSE, FALSE, FALSE, None)
      [] style = "italic"     -> RunAttrs(PARA_STYLE_NORMAL, TEXT_STYLE_ITALIC, FALSE, FALSE, FALSE, FALSE, None)
      [] style = "heading"    -> RunAttrs(PARA_STYLE_HEADING, TEXT_STYLE_NORMAL, FALSE, FALSE, FALSE, FALSE, None)
      [] style = "subheading" -> RunAttrs(PARA_STYLE_SUBHEADING, TEXT_STYLE_NORMAL, FALSE, FALSE, FALSE, FALSE, None)
      [] style = "mono"       -> RunAttrs(PARA_STYLE_MONO, TEXT_STYLE_NORMAL, FALSE, FALSE, FALSE, FALSE, None)
      [] style = "bullet"     -> RunAttrs(PARA_STYLE_BULLET_LIST, TEXT_STYLE_NORMAL, FALSE, FALSE, FALSE, FALSE, None)
      [] style = "bullet_bold" -> RunAttrs(PARA_STYLE_BULLET_LIST, TEXT_STYLE_BOLD, FALSE, FALSE, FALSE, FALSE, None)
      [] style = "dash"       -> RunAttrs(PARA_STYLE_DASH_LIST, TEXT_STYLE_NORMAL, FALSE, FALSE, FALSE, FALSE, None)
      [] style = "number"     -> RunAttrs(PARA_STYLE_NUMBER_LIST, TEXT_STYLE_NORMAL, FALSE, FALSE, FALSE, FALSE, None)
      [] style = "quote"      -> RunAttrs(PARA_STYLE_NORMAL, TEXT_STYLE_NORMAL, TRUE, FALSE, FALSE, FALSE, None)
      [] style = "quote_heading" -> RunAttrs(PARA_STYLE_HEADING, TEXT_STYLE_ITALIC, TRUE, FALSE, FALSE, FALSE, None)
      [] style = "all_inline" -> RunAttrs(PARA_STYLE_NORMAL, TEXT_STYLE_BOLD, FALSE, TRUE, TRUE, TRUE, Some(URL_EXTERNAL))
      [] style = "em_inline"  -> RunAttrs(PARA_STYLE_NORMAL, TEXT_STYLE_ITALIC, FALSE, TRUE, TRUE, TRUE, Some(URL_LOWER_CD))
      [] style = "sup"        -> RunAttrs(PARA_STYLE_NORMAL, TEXT_STYLE_NORMAL, FALSE, TRUE, FALSE, FALSE, None)
      [] style = "link_in"    -> RunAttrs(PARA_STYLE_NORMAL, TEXT_STYLE_NORMAL, FALSE, FALSE, FALSE, FALSE, Some(URL_INTERNAL))
      [] style = "link_cd"    -> RunAttrs(PARA_STYLE_NORMAL, TEXT_STYLE_NORMAL, FALSE, FALSE, FALSE, FALSE, Some(URL_LOWER_CD))
      [] style = "link_ef"    -> RunAttrs(PARA_STYLE_NORMAL, TEXT_STYLE_NORMAL, FALSE, FALSE, FALSE, FALSE, Some(URL_LOWER_EF))
      [] style = "link_unknown" -> RunAttrs(PARA_STYLE_NORMAL, TEXT_STYLE_NORMAL, FALSE, FALSE, FALSE, FALSE, Some(URL_UNKNOWN))
      [] style = "link_ext"   -> RunAttrs(PARA_STYLE_NORMAL, TEXT_STYLE_NORMAL, FALSE, FALSE, FALSE, FALSE, Some(URL_EXTERNAL))
      [] style = "link_empty" -> RunAttrs(PARA_STYLE_NORMAL, TEXT_STYLE_NORMAL, FALSE, FALSE, FALSE, FALSE, Some(<<>>))
      [] style = "style3"     -> RunAttrs(PARA_STYLE_NORMAL, 3, FALSE, FALSE, FALSE, FALSE, None)

EncFlag(num, flag) == IF flag THEN EncVarintField(num, 1) ELSE <<>>

EncAttrs(a) ==
    (IF a.para # 0 THEN EncVarintField(1, a.para) ELSE <<>>)
    \o EncFlag(5, a.ul) \o EncFlag(6, a.strike) \o EncFlag(8, a.quote)

\* One run record.  enc "std" is the documented layout; the others carry
\* sub-field 1 or 2 with another wire type.
EncRun(r) ==
    LET a == StyleAttrs(r.style)
    IN  (CASE r.enc = "len_bytes"   -> EncBytesField(1, <<r.length>>)
           [] r.enc = "len_fixed32" -> EncFixed32Field(1, r.length)
           [] OTHER                 -> EncVarintField(1, r.length))
        \o (IF r.enc = "attrs_varint" THEN EncVarintField(2, 1)
            ELSE EncBytesField(2, EncAttrs(a)))
        \o (IF a.text_style # 0 THEN EncVarintField(5, a.text_style) ELSE <<>>)
        \o EncFlag(8, a.sup)
        \o (IF a.link # None THEN EncBytesField(9, Utf8Encode(a.link[1])) ELSE <<>>)

EncNoteContent(rawtext, runs) ==
    EncBytesField(2, rawtext)
    \o Flatten([i \in 1..Len(runs) |-> EncBytesField(5, EncRun(runs[i]))])

\* shape "full": root field 2 holds the document, its field 3 the note
\* content; "no_content": the document has no field 3; "no_document": the root
\* has no field 2
EncRecord(r) ==
    LET content == EncNoteContent(r.rawtext, r.runs)
        doc == EncVarintField(1, 0) \o EncVarintField(2, 0)
               \o (IF r.shape = "no_content" THEN <<>> ELSE EncBytesField(3, content))
    IN  EncVarintField(1, 0)
        \o (IF r.shape = "no_document" THEN <<>> ELSE EncBytesField(2, doc))

RunRec(length, style) == [length |-> length, style |-> style, enc |-> "std"]

Record(text, runs) ==
    [kind |-> "note", gz |-> "ok", shape |-> "full", text |-> text,
     rawtext |-> Utf8Encode(text), runs |-> runs]

MaxRuns == 3

MaxRunLen == 3

GridTexts ==
    { <<84, 10, 97, 98>>,   \* "T\nab"
      <<84, 10, 97, 10, 10, 98>>,   \* "T\na\n\nb"
      <<84, 10, 60, 38>>,   \* "T\n<&"
      <<84, 97, 98>>,   \* "Tab"   (no newline)
      <<84, 10, 233, 32, 10, 98>> }   \* "T\né \nb"

\* the texts of the style grid: "T\nab" and "T\na\n\nb"
StyleGridTexts == { <<84, 10, 97, 98>>, <<84, 10, 97, 10, 10, 98>> }

\* Two grids: every declared length (plain runs, and bold runs of the short
\* lengths) over every text, and every style with the short declared lengths
\* over the texts of the style grid
GridStyles == {"plain", "bold", "heading", "bullet", "quote", "link_ext"}

ShortLengths == {1, 2}

LengthGridRuns ==
    SeqsUpTo({RunRec(n, "plain") : n \in 0..MaxRunLen} \cup {RunRec(n, "bold") : n \in ShortLengths},
             MaxRuns)

StyleGridRuns ==
    SeqsUpTo({RunRec(n, s) : n \in ShortLengths, s \in GridStyles}, MaxRuns)

LengthGridRecords == {Record(t, rs) : t \in GridTexts, rs \in LengthGridRuns}

StyleGridRecords == {Record(t, rs) : t \in StyleGridTexts, rs \in StyleGridRuns}

HELLO_WORLD == <<72, 101, 108, 108, 111, 10, 87, 111, 114, 108, 100>>   \* "Hello\nWorld"

ESCAPE_EXAMPLE == <<84, 10, 60, 98, 62, 38, 60, 47, 98, 62>>   \* "T\n<b>&</b>"

ESCAPE_BODY == <<60, 98, 62, 38, 60, 47, 98, 62>>   \* "<b>&</b>"

LIST_EXAMPLE == <<84, 10, 111, 110, 101, 10, 116, 119, 111, 10, 116, 104, 114, 101, 101>>   \* "T\none\ntwo\nthree"

\* Records beyond the grid: the examples the specification names, every style
\* of StyleAttrs, run records with unexpected wire types, text that is not
\* UTF-8, records without the document or the note content, records that are
\* not valid gzip data
ExampleRecords ==
    { Record(HELLO_WORLD, <<RunRec(6, "plain"), RunRec(5, "bold")>>),
      Record(ESCAPE_EXAMPLE, <<RunRec(2, "plain"), RunRec(8, "plain")>>),
      Record(ESCAPE_EXAMPLE, <<RunRec(2, "plain"), RunRec(8, "all_inline")>>),
      Record(ESCAPE_EXAMPLE, <<RunRec(2, "plain"), RunRec(8, "em_inline")>>),
      Record(<<84, 10, 97, 98, 99>>, <<RunRec(2, "plain"), RunRec(1, "link_cd"), RunRec(1, "link_ext"), RunRec(1, "link_in")>>),
      Record(ESCAPE_EXAMPLE, <<>>),
      Record(<<84, 10, 97, 98>>, <<RunRec(2, "plain"), RunRec(2, "subheading")>>),
      Record(LIST_EXAMPLE, <<RunRec(2, "plain"), RunRec(13, "bullet")>>),
      Record(LIST_EXAMPLE, <<RunRec(2, "plain"), RunRec(4, "number"), RunRec(9, "dash")>>),
      Record(LIST_EXAMPLE, <<RunRec(2, "plain"), RunRec(2, "plain"), RunRec(2, "bold"), RunRec(9, "bullet")>>),
      [Record(<<84, 10, 97, 98>>, <<RunRec(2, "plain"), RunRec(2, "bold")>>) EXCEPT !.gz = "BadGzipFile"],
      [Record(<<84, 10, 97, 98>>, <<RunRec(2, "plain"), RunRec(2, "bold")>>) EXCEPT !.gz = "EOFError"],
      [Record(<<84, 10, 97, 98>>, <<RunRec(2, "plain"), RunRec(2, "bold")>>) EXCEPT !.gz = "zlib.error"],
      [Record(<<84, 10, 97, 98>>, <<RunRec(4, "plain")>>) EXCEPT !.shape = "no_document"],
      [Record(<<84, 10, 97, 98>>, <<RunRec(4, "plain")>>) EXCEPT !.shape = "no_content"],
      [Record(<<84, 10, 97, 98>>, <<RunRec(4, "plain")>>) EXCEPT !.rawtext = <<84, 10, 255, 98>>],
      Record(<<84, 10, 97, 98>>, <<RunRec(2, "plain"), [RunRec(2, "bold") EXCEPT !.enc = "len_bytes"]>>),
      Record(<<84, 10, 97, 98>>, <<RunRec(2, "plain"), [RunRec(2, "bold") EXCEPT !.enc = "attrs_varint"]>>),
      Record(<<84, 10, 97, 98>>, <<RunRec(2, "plain"), [RunRec(2, "bold") EXCEPT !.enc = "len_fixed32"]>>) }
    \cup { Record(<<84, 10, 97, 10, 10, 98>>, <<RunRec(2, "plain"), RunRec(2, s1), RunRec(2, s2)>>) :
             s1 \in {"italic", "subheading", "mono", "bullet_bold", "dash", "number"},
             s2 \in {"quote_heading", "all_inline", "sup", "link_in", "link_unknown",
                     "link_empty", "style3"} }

\* The NoteLookup table the notes are rendered against, and the slug of the
\* note being rendered
SLUG_A == <<50, 48, 50, 53, 47, 48, 49, 47, 97>>   \* "2025/01/a"

SLUG_B == <<50, 48, 50, 53, 47, 48, 50, 47, 98>>   \* "2025/02/b"

SLUG_C == <<50, 48, 50, 53, 47, 48, 51, 47, 99>>   \* "2025/03/c"

TestLookup ==
    << [title |-> <<65>>, slug |-> SLUG_A, identifier |-> <<67, 68>>],     \* "A", id "CD"
       [title |-> <<66>>, slug |-> SLUG_B, identifier |-> <<65, 66>>],     \* "B", id "AB"
       [title |-> <<67>>, slug |-> SLUG_C, identifier |-> <<99, 100>>] >>  \* "C", id "cd"

TestSlug == SLUG_A

--------------------------------------------------------------------------
(* Specification SpecNote: one record through parse_note_content and       *)
(* convert_note_to_html.                                                   *)

InitNote ==
    /\ \/ rec \in LengthGridRecords
       \/ rec \in StyleGridRecords
       \/ rec \in ExampleRecords
    /\ data = EncRecord(rec)
    /\ pos = 0
    /\ fields = <<>>
    /\ pc = "start"
    /\ parsed = NoParsed
    /\ blocks = <<>>
    /\ html = <<>>
    /\ PublishIdle

\* note["parsed_content"] = parse_note_content(...)
ParseNote ==
    /\ pc = "start"
    /\ parsed' = parse_note_content(rec.gz, data)
    /\ pc' = IF parsed'.status = "ok" THEN "parsed" ELSE "raised"
    /\ UNCHANGED <<data, pos, fields, rec, blocks, html, log, publish_vars>>

\* html = convert_note_to_html(parsed, note_lookup, slug)
ConvertNote ==
    /\ pc = "parsed"
    /\ blocks' = blocks_of(parsed)
    /\ html' = convert_note_to_html(parsed, TestLookup, TestSlug)
    /\ pc' = "rendered"
    /\ UNCHANGED <<data, pos, fields, rec, parsed, log, publish_vars>>

NextNote == ParseNote \/ ConvertNote

SpecNote == InitNote /\ [][NextNote]_vars

--------------------------------------------------------------------------
(* Claims about SpecNote *)

Returned == pc \in {"parsed", "rendered"}

RunLengths(rs) == [i \in 1..Len(rs) |-> rs[i].length]

\* C2: in the list extract_style_runs returns, the first run starts at 0,
\* every run has length > 0, starts do not decrease, and each run starts where
\* the previous one ends.
C2_RunsContiguous ==
    Returned =>
        LET rs == parsed.style_runs
        IN  /\ rs # <<>> => rs[1].start = 0
            /\ \A i \in 1..Len(rs) : rs[i].length > 0
            /\ \A i \in 2..Len(rs) :
                   /\ rs[i].start >= rs[i - 1].start
                   /\ rs[i].start = rs[i - 1].start + rs[i - 1].length

\* C2 witness: a record with a zero-length run record between two others, of
\* which two runs were returned
C2_Witness ==
    /\ pc = "parsed"
    /\ Len(rec.runs) = 3
    /\ rec.runs[2].length = 0
    /\ Len(parsed.style_runs) = 2

\* A well-formed constructed record: fully nested, valid gzip and UTF-8, every
\* run record in the documented layout with a positive length, and the declared
\* lengths adding up to the length of the main text
WellFormed(r) ==
    /\ r.kind = "note" /\ r.gz = "ok" /\ r.shape = "full"
    /\ r.rawtext = Utf8Encode(r.text)
    /\ \A i \in 1..Len(r.runs) : r.runs[i].enc = "std" /\ r.runs[i].length > 0
    /\ SumSeq(RunLengths(r.runs)) = Len(r.text)

\* C3 as stated: for a well-formed record the lengths of the StyleRuns of the
\* ParsedNote add up to the length of its body text (text_content).
C3_SumIsBodyLength ==
    (Returned /\ WellFormed(rec)) =>
        SumSeq(RunLengths(parsed.style_runs)) = Len(parsed.text_content)

\* C3 amended: for a well-formed record the lengths of the StyleRuns add up to
\* the length of the main text the runs are sliced from: title, the newline
\* after it when there is one, and body.
C3_SumIsMainTextLength ==
    (Returned /\ WellFormed(rec)) =>
        SumSeq(RunLengths(parsed.style_runs))
            = Len(parsed.title) + (IF NL \in Range(rec.text) THEN 1 ELSE 0)
              + Len(parsed.text_content)

\* C3 witness: a well-formed record of three runs with a title line and a body
C3_Witness ==
    /\ pc = "parsed"
    /\ WellFormed(rec)
    /\ Len(parsed.style_runs) = 3
    /\ parsed.title # <<>>
    /\ parsed.text_content # <<>>

BlockRuns(blks) == Flatten([i \in 1..Len(blks) |-> blks[i].runs])

\* the runs that are not entirely inside the title span [0, len(title) + 1)
OutsideTitle(note) ==
    LET Keep(r) == ~(r.start + r.length <= Len(note.title) + 1)
    IN  SelectSeq(note.style_runs, Keep)

\* C4 as stated: the runs of all blocks, in block order, are the input runs
\* with exactly the runs of the title span removed.
C4_BlocksKeepEveryRun ==
    (pc = "rendered" /\ parsed.style_runs # <<>>) => BlockRuns(blocks) = OutsideTitle(parsed)

\* C5: no two consecutive blocks have the same type, every block holds at
\* least one run, and the runs of the blocks are input runs in their original
\* order (a strictly increasing selection of the input sequence).
IsSubSeqAt(sub, s, idx) ==
    /\ \A i \in 1..Len(sub) : idx[i] \in 1..Len(s) /\ s[idx[i]] = sub[i]
    /\ \A i \in 2..Len(sub) : idx[i - 1] < idx[i]

IndexOfStart(s, start) == IF \E i \in 1..Len(s) : s[i].start = start
                          THEN CHOOSE i \in 1..Len(s) : s[i].start = start ELSE 0

C5_BlocksAlternate ==
    pc = "rendered" =>
        /\ \A i \in 1..Len(blocks) : blocks[i].runs # <<>>
        /\ \A i \in 2..Len(blocks) : blocks[i].type # blocks[i - 1].type
        /\ LET brs == BlockRuns(blocks)
           IN  IsSubSeqAt(brs, parsed.style_runs,
                          [i \in 1..Len(brs) |-> IndexOfStart(parsed.style_runs, brs[i].start)])

\* C5 witness: two blocks, one of them of two runs
C5_Witness ==
    /\ pc = "rendered"
    /\ Len(blocks) = 2
    /\ \E i \in 1..2 : Len(blocks[i].runs) = 2

MergedOf(b) == merge_runs_for_rendering(b.runs, full_text_of(parsed))

Texts(xs) == Flatten([i \in 1..Len(xs) |-> xs[i].text])

\* C6 as stated: for every block the texts of its MergedRuns, concatenated,
\* are the texts of its StyleRuns, concatenated.
C6_MergedTextIsRunText ==
    pc = "rendered" =>
        \A i \in 1..Len(blocks) : Texts(MergedOf(blocks[i])) = Texts(blocks[i].runs)


\* The merged runs as input of another merge step: entry i becomes a run with
\* the formatting of its representative, placed at its offset in the
\* concatenation of the merged texts
RECURSIVE Offsets(_, _)
Offsets(ms, at) ==
    IF ms = <<>> THEN <<>> ELSE <<at>> \o Offsets(Tail(ms), at + Len(Head(ms).text))

AsRuns(ms) ==
    [i \in 1..Len(ms) |->
        [ms[i].run EXCEPT !.start = Offsets(ms, 0)[i], !.length = Len(ms[i].text),
                          !.text = ms[i].text]]

\* C7: merging is idempotent: the merge step applied to an already-merged
\* sequence yields the same sequence (same entries, same texts, same signatures).
C7_MergeIdempotent ==
    pc = "rendered" =>
        \A i \in 1..Len(blocks) :
            LET ms == MergedOf(blocks[i])
            IN  merge_runs_for_rendering(AsRuns(ms), Texts(ms))
                    = [j \in 1..Len(ms) |-> [ms[j] EXCEPT !.run = AsRuns(ms)[j]]]

\* C7 witness: a block of three runs that merging fused into two entries
C7_Witness ==
    /\ pc = "rendered"
    /\ \E i \in 1..Len(blocks) :
           Len(blocks[i].runs) = 3 /\ Len(MergedOf(blocks[i])) = 2

\* The format signature of a run, from the attributes of the StyleRun
Signature(run) ==
    <<run.text_style = 1, run.text_style = 2, run.is_superscript, run.is_underline,
      run.is_strikethrough, run.link_url>>

\* number of places where the signature changes between neighbours
Changes(runs) == Cardinality({i \in 2..Len(runs) : Signature(runs[i]) # Signature(runs[i - 1])})

\* index of the first run of the k-th maximal group of equal signatures
GroupStarts(runs) ==
    {i \in 1..Len(runs) : i = 1 \/ Signature(runs[i]) # Signature(runs[i - 1])}

CountOcc(s, pat) == Len(Split(s, pat)) - 1

ContentOf(b) == block_content(MergedOf(b), TestLookup, TestSlug)

TagCount(b, open, Flag(_)) ==
    CountOcc(ContentOf(b), open) = Cardinality({i \in GroupStarts(b.runs) : Flag(b.runs[i])})

\* C8: within a block every maximal sequence of adjacent runs with the same
\* signature becomes exactly one MergedRun: there is one MergedRun per group, it
\* carries the group's signature, no two adjacent MergedRuns share a signature,
\* and the block's content holds exactly one opening tag per group and
\* formatting axis the group has.
C8_OneMergedRunPerGroup ==
    pc = "rendered" =>
        \A i \in 1..Len(blocks) :
            LET b  == blocks[i]
                ms == MergedOf(b)
                IsSup(r)    == r.is_superscript
                IsBold(r)   == r.text_style = 1
                IsItalic(r) == r.text_style = 2
                IsUnder(r)  == r.is_underline
                IsStrike(r) == r.is_strikethrough
            IN  /\ Len(ms) = Changes(b.runs) + 1
                /\ \A j \in 2..Len(ms) : ms[j].format_key # ms[j - 1].format_key
                /\ {Signature(ms[j].run) : j \in 1..Len(ms)}
                       = {Signature(b.runs[j]) : j \in GroupStarts(b.runs)}
                /\ \A j \in 1..Len(ms) : ms[j].format_key = Signature(ms[j].run)
                /\ TagCount(b, SUP_OPEN, IsSup)
                /\ TagCount(b, STRONG_OPEN, IsBold)
                /\ TagCount(b, EM_OPEN, IsItalic)
                /\ TagCount(b, U_OPEN, IsUnder)
                /\ TagCount(b, S_OPEN, IsStrike)

\* C8 witness: a block in which two adjacent bold runs follow a run that is not
\* bold, rendered with one <strong>
C8_Witness ==
    /\ pc = "rendered"
    /\ \E i \in 1..Len(blocks) :
           LET rs == blocks[i].runs
           IN  /\ Len(rs) = 3
               /\ rs[1].text_style = 0 /\ rs[2].text_style = 1 /\ rs[3].text_style = 1
               /\ CountOcc(ContentOf(blocks[i]), STRONG_OPEN) = 1

\* What a reader of the HTML sees: markup (everything from "<" to the next
\* ">") removed, then each entity read once, left to right
RECURSIVE DropTags(_, _)
DropTags(h, inside) ==
    IF h = <<>> THEN <<>>
    ELSE IF inside THEN DropTags(Tail(h), Head(h) # 62)
    ELSE IF Head(h) = 60 THEN DropTags(Tail(h), TRUE)
    ELSE <<Head(h)>> \o DropTags(Tail(h), FALSE)

RECURSIVE ReadEntities(_)
ReadEntities(h) ==
    IF h = <<>> THEN <<>>
    ELSE IF StartsWith(h, <<38, 97, 109, 112, 59>>) THEN <<38>> \o ReadEntities(SubSeq(h, 6, Len(h)))
    ELSE IF StartsWith(h, <<38, 108, 116, 59>>) THEN <<60>> \o ReadEntities(SubSeq(h, 5, Len(h)))
    ELSE IF StartsWith(h, <<38, 103, 116, 59>>) THEN <<62>> \o ReadEntities(SubSeq(h, 5, Len(h)))
    ELSE <<Head(h)>> \o ReadEntities(Tail(h))

VisibleText(h) == ReadEntities(DropTags(h, FALSE))

\* every "&" of the text opens one of the three entities
OnlyEntities(h) ==
    \A i \in 1..Len(h) :
        h[i] = 38 => \E e \in {<<38, 97, 109, 112, 59>>, <<38, 108, 116, 59>>, <<38, 103, 116, 59>>} : SubSeq(h, i, i + Len(e) - 1) = e

\* C9: escaping is applied exactly once per character of the run text and never
\* to markup.  The HTML of every merged run shows exactly the text of the run
\* (no character lost to markup, none escaped twice); a note without style runs
\* shows its trimmed paragraphs; the literal text <b>&</b> renders as
\* &lt;b&gt;&amp;&lt;/b&gt;.
C9_EscapedOnce ==
    pc = "rendered" =>
        /\ \A i \in 1..Len(blocks) :
               \A j \in 1..Len(MergedOf(blocks[i])) :
                   LET m == MergedOf(blocks[i])[j]
                       h == format_merged_run_as_html(m, TestLookup, TestSlug)
                   IN  VisibleText(h) = m.text /\ OnlyEntities(DropTags(h, FALSE))
        /\ parsed.style_runs = <<>> =>
               VisibleText(html)
                   = Join(stripped_nonempty(Split(parsed.text_content, <<NL, NL>>)), <<NL, NL>>)
        /\ (parsed.text_content = ESCAPE_BODY
              /\ (parsed.style_runs = <<>>
                    \/ \A k \in 1..Len(parsed.style_runs) : Signature(parsed.style_runs[k])
                           = <<FALSE, FALSE, FALSE, FALSE, FALSE, None>>))
               => html = <<60, 112, 62, 38, 108, 116, 59, 98, 38, 103, 116, 59, 38, 97, 109, 112, 59, 38, 108, 116, 59, 47, 98, 38, 103, 116, 59, 60, 47, 112, 62>>
        /\ (parsed.text_content = ESCAPE_BODY /\ parsed.style_runs # <<>>)
               => CountOcc(html, <<38, 108, 116, 59, 98, 38, 103, 116, 59, 38, 97, 109, 112, 59, 38, 108, 116, 59, 47, 98, 38, 103, 116, 59>>) = 1

\* C9 witness: the note whose body is the literal text <b>&</b>, in a run with
\* every inline format and a link, rendered
C9_Witness ==
    /\ pc = "rendered"
    /\ parsed.text_content = ESCAPE_BODY
    /\ Len(parsed.style_runs) = 2
    /\ parsed.style_runs[2].is_superscript /\ Truthy(parsed.style_runs[2].link_url)
    /\ CountOcc(html, <<38, 108, 116, 59, 98, 38, 103, 116, 59, 38, 97, 109, 112, 59, 38, 108, 116, 59, 47, 98, 38, 103, 116, 59>>) = 1

\* The paragraphs of a normal block, read off the content character by
\* character: a paragraph ends at two newlines in a row
RECURSIVE ParagraphsOf(_, _)
ParagraphsOf(s, cur) ==
    IF s = <<>> THEN <<cur>>
    ELSE IF Len(s) >= 2 /\ s[1] = 10 /\ s[2] = 10
    THEN <<cur>> \o ParagraphsOf(SubSeq(s, 3, Len(s)), <<>>)
    ELSE ParagraphsOf(Tail(s), Append(cur, Head(s)))

\* a paragraph without its leading and trailing white space, single newlines
\* replaced by a space
Trimmed(p) ==
    LET ink == {i \in 1..Len(p) : ~IsSpace(p[i])}
    IN  IF ink = {} THEN <<>>
        ELSE LET lo == CHOOSE i \in ink : \A j \in ink : i <= j
                 hi == CHOOSE i \in ink : \A j \in ink : i >= j
             IN  [i \in 1..(hi - lo + 1) |-> IF p[lo + i - 1] = 10 THEN 32 ELSE p[lo + i - 1]]

RECURSIVE ExpectedParagraphs(_)
ExpectedParagraphs(ps) ==
    IF ps = <<>> THEN <<>>
    ELSE LET rest == ExpectedParagraphs(Tail(ps))
         IN  IF Trimmed(Head(ps)) = <<>> THEN rest
             ELSE IF rest = <<>> THEN <<60, 112, 62>> \o Trimmed(Head(ps)) \o <<60, 47, 112, 62>>
             ELSE <<60, 112, 62>> \o Trimmed(Head(ps)) \o <<60, 47, 112, 62>> \o <<10>> \o rest

\* C10: for a normal block render_block emits one <p>...</p> per non-empty
\* paragraph of the merged content, in order, joined by a newline; paragraphs
\* are separated by a double newline, a paragraph is non-empty when it holds
\* more than white space, it is emitted without surrounding white space and
\* with its single newlines replaced by a space.  Title "Hello" with the single
\* bold run "World" as body renders as <p><strong>World</strong></p>.
C10_NormalBlockParagraphs ==
    pc = "rendered" =>
        /\ \A i \in 1..Len(blocks) :
               blocks[i].type = "normal" =>
                   render_block(blocks[i], full_text_of(parsed), TestLookup, TestSlug)
                       = ExpectedParagraphs(ParagraphsOf(ContentOf(blocks[i]), <<>>))
        /\ (parsed.title = <<72, 101, 108, 108, 111>> /\ Len(blocks) = 1 /\ Len(blocks[1].runs) = 1
              /\ blocks[1].type = "normal"
              /\ blocks[1].runs[1].text = <<87, 111, 114, 108, 100>>
              /\ Signature(blocks[1].runs[1]) = <<TRUE, FALSE, FALSE, FALSE, FALSE, None>>)
               => html = <<60, 112, 62, 60, 115, 116, 114, 111, 110, 103, 62, 87, 111, 114, 108, 100, 60, 47, 115, 116, 114, 111, 110, 103, 62, 60, 47, 112, 62>>

\* C10 witness: a normal block whose content has two paragraphs, rendered as
\* two <p> elements
C10_Witness ==
    /\ pc = "rendered"
    /\ Len(blocks) = 1
    /\ blocks[1].type = "normal"
    /\ Len(ParagraphsOf(ContentOf(blocks[1]), <<>>)) = 2
    /\ CountOcc(html, <<60, 112, 62>>) = 2


\* The lines of a list block, read off the content character by character: a
\* line ends at a newline
RECURSIVE LinesOf(_, _)
LinesOf(s, cur) ==
    IF s = <<>> THEN <<cur>>
    ELSE IF Head(s) = 10 THEN <<cur>> \o LinesOf(Tail(s), <<>>)
    ELSE LinesOf(Tail(s), Append(cur, Head(s)))

\* the lines that hold more than white space, without surrounding white space
NonEmptyLines(content) ==
    LET ls == LinesOf(content, <<>>)
        Inked(l) == Trimmed(l) # <<>>
        kept == SelectSeq(ls, Inked)
    IN  [i \in 1..Len(kept) |-> Trimmed(kept[i])]

RECURSIVE ExpectedItems(_)
ExpectedItems(ls) ==
    IF ls = <<>> THEN <<>>
    ELSE <<10, 60, 108, 105, 62>> \o Head(ls) \o <<60, 47, 108, 105, 62>> \o ExpectedItems(Tail(ls))

\* <ul> or <ol>, then a newline and <li>line</li> per line, then a newline and
\* the closing tag (a list without lines keeps both newlines)
ExpectedList(name, content) ==
    LET items == ExpectedItems(NonEmptyLines(content))
    IN  <<60>> \o name \o <<62>>
        \o (IF items = <<>> THEN <<10>> ELSE items)
        \o <<10, 60, 47>> \o name \o <<62>>

ListTag(type) == IF type = "ol" THEN <<111, 108>> ELSE <<117, 108>>

\* C11: for a list block render_block emits exactly one <li> per non-empty line
\* of the merged content, in the original order, inside <ul> for bullet and dash
\* lists and inside <ol> for number lists, joined by newlines; the bullet list
\* with content "one\ntwo\nthree" renders as
\* <ul>\n<li>one</li>\n<li>two</li>\n<li>three</li>\n</ul>.
C11_ListItems ==
    pc = "rendered" =>
        /\ \A i \in 1..Len(blocks) :
               blocks[i].type \in {"ul", "ul-dash", "ol"} =>
                   /\ render_block(blocks[i], full_text_of(parsed), TestLookup, TestSlug)
                          = ExpectedList(ListTag(blocks[i].type), ContentOf(blocks[i]))
                   /\ CountOcc(render_block(blocks[i], full_text_of(parsed), TestLookup, TestSlug),
                               <<60, 108, 105, 62>>)
                          = Len(NonEmptyLines(ContentOf(blocks[i])))
        /\ (Len(blocks) = 1 /\ blocks[1].type = "ul"
              /\ ContentOf(blocks[1]) = <<111, 110, 101, 10, 116, 119, 111, 10, 116, 104, 114, 101, 101>>)
               => html = <<60, 117, 108, 62, 10, 60, 108, 105, 62, 111, 110, 101, 60, 47, 108, 105, 62, 10, 60, 108, 105, 62, 116, 119, 111, 60, 47, 108, 105, 62, 10, 60, 108, 105, 62, 116, 104, 114, 101, 101, 60, 47, 108, 105, 62, 10, 60, 47, 117, 108, 62>>

\* C11 witness: a list block whose content has an empty line between two items,
\* rendered with two <li>
C11_Witness ==
    /\ pc = "rendered"
    /\ Len(blocks) = 1
    /\ blocks[1].type = "ul"
    /\ Len(LinesOf(ContentOf(blocks[1]), <<>>)) = 3
    /\ CountOcc(html, <<60, 108, 105, 62>>) = 2

\* the three-item example of C11 is rendered
C11_ExampleRendered ==
    /\ pc = "rendered"
    /\ Len(blocks) = 1 /\ blocks[1].type = "ul"
    /\ ContentOf(blocks[1]) = <<111, 110, 101, 10, 116, 119, 111, 10, 116, 104, 114, 101, 101>>


\* C15 as stated: for a record that is not validly compressed (bad header,
\* corrupted or truncated stream) parse_note_content returns the empty
\* ParsedNote and does not raise.
C15_BadCompressionGivesEmptyNote ==
    (rec.kind = "note" /\ rec.gz # "ok" /\ pc # "start") =>
        /\ pc # "raised"
        /\ parsed = ParsedNote("ok", <<>>, <<>>, <<>>, <<>>)

\* C16 as stated: whatever wire type the fields of the decompressed content
\* carry, parse_note_content returns a ParsedNote and convert_note_to_html
\* returns HTML; no exception leaves either.
C16_AnyWireTypeRenders ==
    (rec.kind = "note" /\ rec.gz = "ok") => pc # "raised"

\* the runs of all blocks start after the title span
StartsAfterTitle(blks, title) ==
    \A i \in 1..Len(blks) : \A j \in 1..Len(blks[i].runs) :
        blks[i].runs[j].start >= Len(title) + 1

\* C19 as stated: the HTML of a note with style runs holds no character of the
\* title span [0, len(title) + 1).  Every rendered character is a slice of the
\* full text at a run of a block, so every such run starts after the title
\* span; and for the title "T" over a body without "T" the HTML holds no "T".
C19_TitleNotInBody ==
    (pc = "rendered" /\ parsed.style_runs # <<>>) =>
        /\ StartsAfterTitle(blocks, parsed.title)
        /\ parsed.title = <<84>> => \A k \in 1..Len(html) : html[k] # 84

\* the runs outside the title span are all of one paragraph style, none quoted
AllOfStyle(note, style) ==
    /\ OutsideTitle(note) # <<>>
    /\ \A i \in 1..Len(OutsideTitle(note)) :
           /\ OutsideTitle(note)[i].paragraph_style = style
           /\ ~OutsideTitle(note)[i].is_blockquote

TrimmedContent(note) ==
    strip(block_content(merge_runs_for_rendering(OutsideTitle(note), full_text_of(note)),
                        TestLookup, TestSlug))

\* C20 as stated: a block of heading runs (paragraph style 1) after the title
\* span renders as <h2> around its trimmed merged content, a block of
\* subheading runs (paragraph style 2) as <h3>.
C20_HeadingLevels ==
    pc = "rendered" =>
        /\ AllOfStyle(parsed, 1) =>
               html = <<60, 104, 50, 62>> \o TrimmedContent(parsed) \o <<60, 47, 104, 50, 62>>
        /\ AllOfStyle(parsed, 2) =>
               html = <<60, 104, 51, 62>> \o TrimmedContent(parsed) \o <<60, 47, 104, 51, 62>>


\* the runs of the blocks whose link is an internal link that matches no entry
\* of the table
UnknownLinkRuns(blks, table) ==
    LET Unknown(r) ==
            /\ Truthy(r.link_url)
            /\ StartsWith(r.link_url[1], APPLENOTES_PREFIX)
            /\ \A e \in 1..Len(table) :
                   lower(table[e].identifier) # lower(link_note_id(r.link_url[1]))
    IN  SelectSeq(BlockRuns(blks), Unknown)

LinkedRuns(blks) ==
    LET Linked(r) == Truthy(r.link_url)
    IN  SelectSeq(BlockRuns(blks), Linked)

\* C12 as stated: an internal link whose identifier matches no NoteLookup entry
\* renders as its anchor text without an <a> tag and produces exactly one
\* warning.  For a note whose only link is one such run: the HTML holds no
\* "<a " and exactly one line was printed.
C12_UnknownLinkWarns ==
    (pc = "rendered" /\ Len(UnknownLinkRuns(blocks, TestLookup)) = 1 /\ Len(LinkedRuns(blocks)) = 1) =>
        /\ CountOcc(html, <<60, 97, 32>>) = 0
        /\ Len(log) = 1

\* the part of C12 the code keeps: no <a> tag around an unresolved internal link
C12_UnknownLinkIsPlainText ==
    (pc = "rendered" /\ LinkedRuns(blocks) = UnknownLinkRuns(blocks, TestLookup)) =>
        CountOcc(html, <<60, 97, 32>>) = 0

--------------------------------------------------------------------------
(* publish.py: main(), one publish run.  The inputs of a run are the        *)
(* templates the template directory holds, the rows of the notes database   *)
(* and the manifest of the run before.                                      *)

DASH == <<45>>   \* '-'

\* a datetime, as far as the run reads it
Datetime(year, month, day) == [year |-> year, month |-> month, day |-> day]

\* a > b on datetimes
later_than(a, b) ==
    \/ a.year > b.year
    \/ a.year = b.year /\ a.month > b.month
    \/ a.year = b.year /\ a.month = b.month /\ a.day > b.day

\* strftime("%Y") and strftime("%m"): decimal, zero-padded to the width
RECURSIVE strftime_digits(_, _)
strftime_digits(n, width) ==
    IF width = 0 THEN <<>>
    ELSE strftime_digits(n \div 10, width - 1) \o <<48 + (n % 10)>>

\* re.sub(r"[^a-z0-9\s]", "", s)
RECURSIVE remove_other_chars(_)
remove_other_chars(s) ==
    IF s = <<>> THEN <<>>
    ELSE (IF Head(s) \in 97..122 \/ Head(s) \in 48..57 \/ IsSpace(Head(s))
          THEN <<Head(s)>> ELSE <<>>) \o remove_other_chars(Tail(s))

\* re.sub(r"\s+", "-", s): every maximal run of whitespace becomes one dash
RECURSIVE dash_whitespace(_, _)
dash_whitespace(s, in_space) ==
    IF s = <<>> THEN <<>>
    ELSE IF IsSpace(Head(s))
    THEN (IF in_space THEN <<>> ELSE DASH) \o dash_whitespace(Tail(s), TRUE)
    ELSE <<Head(s)>> \o dash_whitespace(Tail(s), FALSE)

generate_slug(title, creation_date) ==
    strftime_digits(creation_date.year, 4) \o SLASH
    \o strftime_digits(creation_date.month, 2) \o SLASH
    \o dash_whitespace(remove_other_chars(lower(title)), FALSE)

\* the templates main loads, in the order it loads them (lines 634-638)
TEMPLATE_NAMES == <<"article", "article-snippet", "index", "feed">>

\* a load_template that returns whether the file exists or not
load_template_lenient(present, name) == "ok"

\* load_template: "exit" is the error message and sys.exit(1) of lines 546-548
load_template(present, name) ==
    IF name \in present THEN "ok" ELSE "exit"

\* the publish.py process_footnotes (lines 528-533)
process_footnotes(h, slug) == [kind |-> "result", content |-> h, footer |-> <<>>]

\* one row of the query of get_notes_from_folder; zdata is None or the record
Row(identifier, ztitle, creation_date, modification_date, zdata) ==
    [identifier |-> identifier, ztitle |-> ztitle, creation_date |-> creation_date,
     modification_date |-> modification_date, zdata |-> zdata]

\* the dict get_notes_from_folder appends for a row (export.py lines 452-466);
\* parsed_content NoParsed is None
note_of_row(row) ==
    LET note(p) ==
            [identifier |-> row.identifier,
             title |-> IF Truthy(row.ztitle) THEN row.ztitle[1]
                       ELSE IF p.status = "ok" THEN p.title ELSE <<>>,
             creation_date |-> row.creation_date,
             modification_date |-> row.modification_date,
             parsed_content |-> p]
    IN  note(IF row.zdata = None
             THEN NoParsed
             ELSE parse_note_content(row.zdata[1].gz, EncRecord(row.zdata[1])))

get_notes_from_folder(rows) == [i \in 1..Len(rows) |-> note_of_row(rows[i])]

\* parse_note_content raised for one of the rows
get_notes_raises(ns) == \E i \in 1..Len(ns) : ns[i].parsed_content.status = "raised"

\* the list comprehension of lines 669-673
RECURSIVE modified_since(_, _)
modified_since(ns, last_published) ==
    IF ns = <<>> THEN <<>>
    ELSE (IF later_than(Head(ns).modification_date, last_published)
          THEN <<Head(ns)>> ELSE <<>>) \o modified_since(Tail(ns), last_published)

\* the value main stores for a note (lines 686-690)
lookup_entry(note) ==
    [title |-> note.title, slug |-> generate_slug(note.title, note.creation_date),
     creationDate |-> note.creation_date, identifier |-> note.identifier]

\* note_lookup[title] = value: a dict keeps the place of a key it already has
dict_set(table, value) ==
    IF \E i \in 1..Len(table) : table[i].title = value.title
    THEN [i \in 1..Len(table) |-> IF table[i].title = value.title THEN value ELSE table[i]]
    ELSE Append(table, value)

\* the loop of lines 682-690 ends before all_notes is through
lookup_complete_after_one(passes, ns) == passes >= 1

\* the loop of lines 682-690 ends when it has passed every note of all_notes
lookup_complete(passes, ns) == passes = Len(ns)

\* what write_file is given: the article of a slug, or one of the site files
Written(kind, slug) == [kind |-> kind, slug |-> slug]

\* the dict main appends to posts (lines 727-736), as far as it is modelled
Post(note, slug, content) ==
    [title |-> note.title, slug |-> slug, creationDate |-> note.creation_date,
     content |-> content]


--------------------------------------------------------------------------
(* Specification SpecPublish: main() from the loading of the templates to   *)
(* the saving of the manifest.                                              *)

\* the most rows the notes folder holds
MaxNotes == 2

\* the rows of the notes database: "A" links to the note EF, the note CD has
\* no ZTITLE1 and links to AB, EF is a second note titled "A" and links to CD,
\* GH has no note data, the data of IJ end before the end of the gzip stream
ROW_AB == Row(<<65, 66>>, Some(<<65>>), Datetime(2025, 1, 5), Datetime(2025, 3, 1),
              Some(Record(<<65, 10, 120>>, <<RunRec(2, "plain"), RunRec(1, "link_ef")>>)))

ROW_CD == Row(<<67, 68>>, None, Datetime(2025, 2, 7), Datetime(2025, 3, 3),
              Some(Record(<<66, 32, 99, 10, 121>>, <<RunRec(4, "plain"), RunRec(1, "link_in")>>)))

ROW_EF == Row(<<69, 70>>, Some(<<65>>), Datetime(2024, 11, 9), Datetime(2025, 3, 3),
              Some(Record(<<65, 10, 122>>, <<RunRec(2, "plain"), RunRec(1, "link_cd")>>)))

ROW_GH == Row(<<71, 72>>, Some(<<68>>), Datetime(2024, 12, 30), Datetime(2025, 3, 1), None)

ROW_IJ == Row(<<73, 74>>, Some(<<69>>), Datetime(2025, 2, 1), Datetime(2025, 3, 3),
              Some([Record(<<69, 10, 119>>, <<RunRec(2, "plain"), RunRec(1, "plain")>>)
                      EXCEPT !.gz = "EOFError"]))

PublishRows == {ROW_AB, ROW_CD, ROW_EF, ROW_GH, ROW_IJ}

\* ORDER BY n.ZMODIFICATIONDATE1 DESC, and a row is in the result once
QueryResults ==
    { rows \in SeqsUpTo(PublishRows, MaxNotes) :
        /\ \A i, j \in 1..Len(rows) : i # j => rows[i] # rows[j]
        /\ \A i \in 1..(Len(rows) - 1) :
              ~later_than(rows[i + 1].modification_date, rows[i].modification_date) }

\* the template directories: complete, or with one template missing
TemplateDirs ==
    { Range(TEMPLATE_NAMES) } \cup { Range(TEMPLATE_NAMES) \ {name} : name \in Range(TEMPLATE_NAMES) }

\* the manifest: none, or one of a run between the modification dates
Manifests == { None, Some(Datetime(2025, 3, 2)) }

Env(templates, db, rows, last_published) ==
    [kind |-> "run", templates |-> templates, db |-> db, rows |-> rows,
     last_published |-> last_published]

InitPublish ==
    /\ \/ \E t \in TemplateDirs, rows \in QueryResults, m \in Manifests :
             env = Env(t, "ok", rows, m)
       \/ \E db \in {"no_database", "no_folder"} :
             env = Env(Range(TEMPLATE_NAMES), db, <<>>, None)
    /\ pc = "load_templates"
    /\ data = <<>>
    /\ pos = 0
    /\ fields = <<>>
    /\ rec = NoRecord
    /\ parsed = NoParsed
    /\ blocks = <<>>
    /\ html = <<>>
    /\ log = <<>>
    /\ all_notes = <<>>
    /\ notes = <<>>
    /\ lookup = <<>>
    /\ posts = <<>>
    /\ files = <<>>
    /\ cursor = 0
    /\ footnote_result = NoResult
    /\ index_html = <<>>
    /\ feed_xml = <<>>

\* lines 634-638: one call of load_template
LoadTemplate ==
    /\ pc = "load_templates"
    /\ IF load_template(env.templates, TEMPLATE_NAMES[cursor + 1]) = "ok"
       THEN /\ cursor' = IF cursor + 1 = Len(TEMPLATE_NAMES) THEN 0 ELSE cursor + 1
            /\ pc' = IF cursor + 1 = Len(TEMPLATE_NAMES) THEN "get_notes" ELSE "load_templates"
            /\ log' = log
       ELSE /\ cursor' = cursor
            /\ pc' = "exit_1"
            /\ log' = Append(log, "Error: Template not found")
    /\ UNCHANGED <<data, pos, fields, rec, parsed, blocks, html,
                   env, all_notes, notes, lookup, posts, files, footnote_result,
                   index_html, feed_xml>>

\* lines 644-665: the notes of the folder
GetNotes ==
    /\ pc = "get_notes"
    /\ LET got(ns) ==
              CASE env.db = "no_database" ->
                      /\ pc' = "exit_1"
                      /\ log' = Append(log, "Error: Notes database not found")
                      /\ all_notes' = all_notes
                [] env.db = "no_folder" ->
                      /\ pc' = "exit_1"
                      /\ log' = Append(log, "Error: Folder not found")
                      /\ all_notes' = all_notes
                [] env.db = "ok" /\ get_notes_raises(ns) ->
                      /\ pc' = "raised"
                      /\ log' = log
                      /\ all_notes' = all_notes
                [] env.db = "ok" /\ ~get_notes_raises(ns) /\ ns = <<>> ->
                      /\ pc' = "exit_1"
                      /\ log' = Append(log, "Error: No notes found in folder")
                      /\ all_notes' = ns
                [] OTHER ->
                      /\ pc' = "filter"
                      /\ log' = log
                      /\ all_notes' = ns
       IN  got(get_notes_from_folder(env.rows))
    /\ UNCHANGED <<data, pos, fields, rec, parsed, blocks, html,
                   env, notes, lookup, posts, files, cursor, footnote_result,
                   index_html, feed_xml>>

\* lines 668-678: the notes to render
FilterNotes ==
    /\ pc = "filter"
    /\ notes' = IF env.last_published # None
                THEN modified_since(all_notes, env.last_published[1])
                ELSE all_notes
    /\ IF notes' = <<>>
       THEN /\ pc' = "exit_0"
            /\ log' = Append(log, "No notes modified since")
       ELSE /\ pc' = "build_lookup"
            /\ log' = log
    /\ UNCHANGED <<data, pos, fields, rec, parsed, blocks, html,
                   env, all_notes, lookup, posts, files, cursor, footnote_result,
                   index_html, feed_xml>>

\* lines 682-690: one pass of the loop over all_notes
BuildLookup ==
    /\ pc = "build_lookup"
    /\ lookup' = dict_set(lookup, lookup_entry(all_notes[cursor + 1]))
    /\ cursor' = IF lookup_complete(cursor + 1, all_notes) THEN 0 ELSE cursor + 1
    /\ pc' = IF lookup_complete(cursor + 1, all_notes) THEN "render" ELSE "build_lookup"
    /\ UNCHANGED <<data, pos, fields, rec, parsed, blocks, html, log,
                   env, all_notes, notes, posts, files, footnote_result,
                   index_html, feed_xml>>

\* lines 695-737: one pass of the loop over notes.  A note without data has
\* parsed_content None, and convert_note_to_html raises AttributeError on it.
RenderNote ==
    /\ pc = "render"
    /\ LET render(note, slug) ==
              IF note.parsed_content = NoParsed
              THEN /\ pc' = "raised"
                   /\ parsed' = NoParsed
                   /\ UNCHANGED <<blocks, html, footnote_result, files, posts, cursor>>
              ELSE /\ parsed' = note.parsed_content
                   /\ blocks' = blocks_of(note.parsed_content)
                   /\ footnote_result' =
                          process_footnotes(convert_note_to_html(note.parsed_content, lookup, slug), slug)
                   /\ html' = footnote_result'.content
                   /\ files' = Append(files, Written("article", slug))
                   /\ posts' = Append(posts, Post(note, slug, html'))
                   /\ cursor' = IF cursor + 1 = Len(notes) THEN 0 ELSE cursor + 1
                   /\ pc' = IF cursor + 1 = Len(notes) THEN "index" ELSE "render"
       IN  render(notes[cursor + 1],
                  generate_slug(notes[cursor + 1].title, notes[cursor + 1].creation_date))
    /\ UNCHANGED <<data, pos, fields, rec, log, env, all_notes, notes, lookup,
                   index_html, feed_xml>>

\* the [:30] of lines 582 and 740
RECENT_POSTS == 30

first_n(s, n) == SubSeq(s, 1, IF Len(s) < n THEN Len(s) ELSE n)

\* sorted(posts, key=creationDate, reverse=True): a stable sort, so posts of
\* one creation date keep their order
RECURSIVE sorted_newest_first(_)
sorted_newest_first(ps) ==
    IF ps = <<>> THEN <<>>
    ELSE LET rest == sorted_newest_first(SubSeq(ps, 1, Len(ps) - 1))
             p == ps[Len(ps)]
             before == SelectSeq(rest, LAMBDA q : ~later_than(p.creationDate, q.creationDate))
             after == SelectSeq(rest, LAMBDA q : later_than(p.creationDate, q.creationDate))
         IN  before \o <<p>> \o after

\* line 740: the posts of index.html
posts_sorted(ps) == first_n(sorted_newest_first(ps), RECENT_POSTS)

\* lines 575-597: the posts of the items of the feed
generate_rss_items(ps) == first_n(sorted_newest_first(ps), RECENT_POSTS)

\* lines 739-743
WriteIndex ==
    /\ pc = "index"
    /\ index_html' = posts_sorted(posts)
    /\ files' = Append(files, Written("index.html", <<>>))
    /\ pc' = "feed"
    /\ UNCHANGED <<data, pos, fields, rec, parsed, blocks, html, log,
                   env, all_notes, notes, lookup, posts, cursor, footnote_result,
                   feed_xml>>

\* lines 745-754
WriteFeed ==
    /\ pc = "feed"
    /\ feed_xml' = generate_rss_items(posts)
    /\ files' = Append(files, Written("feed.xml", <<>>))
    /\ pc' = "manifest"
    /\ UNCHANGED <<data, pos, fields, rec, parsed, blocks, html, log,
                   env, all_notes, notes, lookup, posts, cursor, footnote_result,
                   index_html>>

\* a save_manifest that is called before the feed is generated
SaveManifest_before_feed ==
    /\ pc = "feed"
    /\ files' = Append(files, Written("manifest.json", <<>>))
    /\ log' = log \o <<"Published posts", "Manifest saved">>
    /\ pc' = "manifest"
    /\ UNCHANGED <<data, pos, fields, rec, parsed, blocks, html,
                   env, all_notes, notes, lookup, posts, cursor, footnote_result,
                   index_html, feed_xml>>

\* lines 757-763
SaveManifest ==
    /\ pc = "manifest"
    /\ files' = Append(files, Written("manifest.json", <<>>))
    /\ log' = log \o <<"Published posts", "Manifest saved">>
    /\ pc' = "done"
    /\ UNCHANGED <<data, pos, fields, rec, parsed, blocks, html,
                   env, all_notes, notes, lookup, posts, cursor, footnote_result,
                   index_html, feed_xml>>

NextPublish ==
    \/ LoadTemplate
    \/ GetNotes
    \/ FilterNotes
    \/ BuildLookup
    \/ RenderNote
    \/ WriteIndex
    \/ WriteFeed
    \/ SaveManifest

SpecPublish == InitPublish /\ [][NextPublish]_vars

\* main runs on: the statement it has reached is executed.  Assumed of every
\* step but the two that parse and render notes.
SpecPublishFair ==
    /\ SpecPublish
    /\ WF_vars(LoadTemplate)
    /\ WF_vars(FilterNotes)
    /\ WF_vars(BuildLookup)
    /\ WF_vars(WriteIndex)
    /\ WF_vars(WriteFeed)
    /\ WF_vars(SaveManifest)

--------------------------------------------------------------------------
(* C13 *)

\* the anchor format_merged_run_as_html writes for a link to the note
AnchorTo(note) ==
    A_OPEN_SLUG \o generate_slug(note.title, note.creation_date) \o A_HTML_CLOSE_QUOTE

\* the internal links of the k-th rendered note that name the note in any
\* letter case are rendered as anchors to the slug of the note
LinksRenderedTo(k, note) ==
    \A l \in 1..Len(notes[k].parsed_content.note_links) :
        lower(notes[k].parsed_content.note_links[l].note_id) = lower(note.identifier)
        => CountOcc(posts[k].content, AnchorTo(note)) >= 1

\* C13: whatever subset of the notes is rendered, an internal link whose
\* identifier equals, in any letter case, the identifier of a note of the full
\* note set (all_notes) is rendered as <a href="/S.html"> with S the slug of
\* that note.
C13_LinksResolveOverAllNotes ==
    \A k \in 1..Len(posts) : \A n \in 1..Len(all_notes) : LinksRenderedTo(k, all_notes[n])

\* the same, for the runs in which no two notes of the folder share a title
C13_LinksResolveWhenTitlesDiffer ==
    (\A i, j \in 1..Len(all_notes) : i # j => all_notes[i].title # all_notes[j].title)
    => C13_LinksResolveOverAllNotes

\* an incremental run has rendered a link to a note it does not render
C13_IncrementalResolved ==
    /\ Len(posts) = 1
    /\ Len(all_notes) = 2
    /\ Len(notes) = 1
    /\ notes[1].parsed_content.note_links # <<>>
    /\ lower(notes[1].parsed_content.note_links[1].note_id) = lower(all_notes[2].identifier)
    /\ CountOcc(posts[1].content, AnchorTo(all_notes[2])) = 1

--------------------------------------------------------------------------
(* C17 *)

\* the entries of the table are those of the dict built from all of ns: one
\* entry per title, holding the values of the last note of that title
BuiltFromAll(table, ns) ==
    /\ \A n \in 1..Len(ns) : \E e \in 1..Len(table) : table[e].title = ns[n].title
    /\ \A e, f \in 1..Len(table) : table[e].title = table[f].title => e = f
    /\ \A e \in 1..Len(table) :
          \E n \in 1..Len(ns) :
              /\ table[e] = lookup_entry(ns[n])
              /\ \A m \in (n + 1)..Len(ns) : ns[m].title # ns[n].title

\* C17: in a publish run nothing is rendered while the NoteLookup table is
\* being built, the table holds the entries of the full note set when the
\* first note is rendered, and no rendering step changes it.
C17_LookupBuiltBeforeRender ==
    [][ /\ pc = "build_lookup" => (posts = <<>> /\ files = <<>>)
        /\ pc = "render" => (BuiltFromAll(lookup, all_notes) /\ lookup' = lookup) ]_vars

\* a note has been rendered against a table of two entries, another is to come
C17_Witness ==
    /\ pc = "render"
    /\ Len(lookup) = 2
    /\ Len(posts) = 1

--------------------------------------------------------------------------
(* C18 *)

MissingTemplate == env.kind = "run" /\ env.templates # Range(TEMPLATE_NAMES)

\* C18: when one of the templates article, article-snippet, index and feed is
\* missing, no article file, index.html, feed.xml or manifest is ever written,
\* and the run ends with the error message and exit status 1.
C18_MissingTemplateIsFatal ==
    /\ [](MissingTemplate =>
            (files = <<>> /\ posts = <<>> /\ pc \in {"load_templates", "exit_1"}))
    /\ (MissingTemplate ~> (pc = "exit_1" /\ log = <<"Error: Template not found">>))

\* the run has ended on the last template, the other three loaded
C18_Witness ==
    /\ pc = "exit_1"
    /\ env.templates = Range(TEMPLATE_NAMES) \ {"feed"}
    /\ cursor = 3
    /\ files = <<>>


--------------------------------------------------------------------------
(* publish-simple.py: process_footnotes (lines 262-295), the function of    *)
(* the same name that publish.py replaces by the one of its lines 528-533.  *)

FOOTNOTE_MARK == <<91, 94>>   \* '[^'

BRACKET_CLOSE == 93   \* ']'

COLON == 58   \* ':'

FOOTNOTE_INFIX == <<45, 45, 102, 111, 111, 116, 110, 111, 116, 101, 45>>   \* '--footnote-'

ANCHOR_SUFFIX == <<45, 45, 97, 110, 99, 104, 111, 114>>   \* '--anchor'

REF_OPEN == <<60, 97, 32, 105, 100, 61, 34>>   \* '<a id="'

REF_HREF == <<34, 32, 104, 114, 101, 102, 61, 34, 35>>   \* '" href="#'

REF_SUP == <<34, 62, 60, 115, 117, 112, 62>>   \* '"><sup>'

REF_CLOSE == <<60, 47, 115, 117, 112, 62, 60, 47, 97, 62>>   \* '</sup></a>'

FOOTER_OPEN == <<60, 102, 111, 111, 116, 101, 114, 62, 10, 60, 111, 108, 62, 10>>   \* '<footer>\n<ol>\n'

FOOTER_CLOSE == <<60, 47, 111, 108, 62, 10, 60, 47, 102, 111, 111, 116, 101, 114, 62>>   \* '</ol>\n</footer>'

FOOTER_LI_OPEN == <<60, 108, 105, 32, 105, 100, 61, 34>>   \* '<li id="'

FOOTER_LI_TEXT == <<34, 62>>   \* '">'

FOOTER_BACK_OPEN == <<60, 97, 32, 104, 114, 101, 102, 61, 34, 35>>   \* '<a href="#'

FOOTER_BACK_CLOSE == <<34, 62, 8617, 65038, 60, 47, 97, 62, 60, 47, 108, 105, 62, 10>>   \* '">' U+21A9 U+FE0E '</a></li>\n'

IsDigit(c) == c \in 48..57

\* the first index from i on whose character is not in the class; Len(s) + 1
\* if there is none
RECURSIVE skip_digits(_, _)
skip_digits(s, i) ==
    IF i <= Len(s) /\ IsDigit(s[i]) THEN skip_digits(s, i + 1) ELSE i

RECURSIVE skip_whitespace(_, _)
skip_whitespace(s, i) ==
    IF i <= Len(s) /\ IsSpace(s[i]) THEN skip_whitespace(s, i + 1) ELSE i

RECURSIVE end_of_line(_, _)
end_of_line(s, i) ==
    IF i <= Len(s) /\ s[i] # NL THEN end_of_line(s, i + 1) ELSE i

NoMatch == [ok |-> FALSE]

\* \[\^(\d+)\] at index i: the number and the index after the bracket
marker_at(s, i) ==
    LET close == skip_digits(s, i + 2)
    IN  IF /\ i + 1 <= Len(s)
           /\ SubSeq(s, i, i + 1) = FOOTNOTE_MARK
           /\ close > i + 2
           /\ close <= Len(s)
           /\ s[close] = BRACKET_CLOSE
        THEN [ok |-> TRUE, num |-> SubSeq(s, i + 2, close - 1), end |-> close + 1]
        ELSE NoMatch

\* \s+(.+?)$ from index j, re.MULTILINE: \s+ takes all the white space there
\* is and gives back as little as lets (.+?) start on a character that is
\* not a newline; (.+?) then runs to the end of the line.
definition_text_at(s, j) ==
    LET space_end == skip_whitespace(s, j)
        starts == { q \in (j + 1)..space_end : q <= Len(s) /\ s[q] # NL }
        upto(q) == [ok |-> TRUE, text |-> SubSeq(s, q, end_of_line(s, q) - 1),
                    end |-> end_of_line(s, q)]
    IN  IF starts = {} THEN NoMatch
        ELSE upto(CHOOSE q \in starts : \A r \in starts : r <= q)

\* ^\[\^(\d+)\]:?\s+(.+?)$ at index i, re.MULTILINE
definition_at(s, i) ==
    LET after_colon(j) == IF j <= Len(s) /\ s[j] = COLON THEN j + 1 ELSE j
        with_text(marker, t) ==
            IF t.ok THEN [ok |-> TRUE, num |-> marker.num, text |-> t.text, end |-> t.end]
            ELSE NoMatch
        with_marker(marker) ==
            IF marker.ok
            THEN with_text(marker, definition_text_at(s, after_colon(marker.end)))
            ELSE NoMatch
    IN  IF i = 1 \/ s[i - 1] = NL THEN with_marker(marker_at(s, i)) ELSE NoMatch

\* definitions[num] = text.strip(): the dict as the sequence of its items
definitions_set(definitions, num, text) ==
    IF \E k \in 1..Len(definitions) : definitions[k].num = num
    THEN [k \in 1..Len(definitions) |->
             IF definitions[k].num = num THEN [num |-> num, text |-> text] ELSE definitions[k]]
    ELSE Append(definitions, [num |-> num, text |-> text])

\* re.sub with extract_definition (lines 267-273): the content without the
\* matches, and the dict
RECURSIVE extract_definition(_, _, _, _)
extract_definition(s, i, content, definitions) ==
    IF i > Len(s) THEN [content |-> content, definitions |-> definitions]
    ELSE LET step(m) ==
                 IF m.ok
                 THEN extract_definition(s, m.end, content,
                                         definitions_set(definitions, m.num, strip(m.text)))
                 ELSE extract_definition(s, i + 1, Append(content, s[i]), definitions)
         IN  step(definition_at(s, i))

\* the anchor of lines 277-279
reference_anchor(slug, num) ==
    REF_OPEN \o slug \o FOOTNOTE_INFIX \o num \o ANCHOR_SUFFIX
    \o REF_HREF \o slug \o FOOTNOTE_INFIX \o num \o REF_SUP \o num \o REF_CLOSE

\* re.sub with replace_reference (lines 276-282)
RECURSIVE replace_reference(_, _, _)
replace_reference(s, i, slug) ==
    IF i > Len(s) THEN <<>>
    ELSE LET step(m) ==
                 IF m.ok THEN reference_anchor(slug, m.num) \o replace_reference(s, m.end, slug)
                 ELSE <<s[i]>> \o replace_reference(s, i + 1, slug)
         IN  step(marker_at(s, i))

\* int(num)
RECURSIVE int_of(_)
int_of(num) ==
    IF num = <<>> THEN 0 ELSE 10 * int_of(SubSeq(num, 1, Len(num) - 1)) + (num[Len(num)] - 48)

\* sorted(definitions.keys(), key=int): stable, by the value of the number
RECURSIVE sorted_by_int(_)
sorted_by_int(definitions) ==
    IF definitions = <<>> THEN <<>>
    ELSE LET k == CHOOSE k \in 1..Len(definitions) :
                      \A m \in 1..Len(definitions) :
                          \/ int_of(definitions[k].num) < int_of(definitions[m].num)
                          \/ int_of(definitions[k].num) = int_of(definitions[m].num) /\ k <= m
         IN  <<definitions[k]>>
             \o sorted_by_int(SubSeq(definitions, 1, k - 1)
                              \o SubSeq(definitions, k + 1, Len(definitions)))

\* one pass of the loop of lines 289-292
footer_item(slug, d) ==
    FOOTER_LI_OPEN \o slug \o FOOTNOTE_INFIX \o d.num \o FOOTER_LI_TEXT \o d.text
    \o FOOTER_BACK_OPEN \o slug \o FOOTNOTE_INFIX \o d.num \o ANCHOR_SUFFIX \o FOOTER_BACK_CLOSE

\* lines 285-293
build_footer(slug, definitions) ==
    IF definitions = <<>> THEN <<>>
    ELSE FOOTER_OPEN
         \o Flatten([k \in 1..Len(definitions) |-> footer_item(slug, sorted_by_int(definitions)[k])])
         \o FOOTER_CLOSE

simple_process_footnotes(h, slug) ==
    LET result(extracted) ==
            [kind |-> "result",
             content |-> strip(replace_reference(extracted.content, 1, slug)),
             footer |-> build_footer(slug, extracted.definitions)]
    IN  result(extract_definition(h, 1, <<>>, <<>>))

--------------------------------------------------------------------------
(* Specification SpecFootnotes: process_footnotes on rendered content.      *)

\* the most lines of the content
MaxLines == 2

FootnoteLines ==
    { <<91, 94, 49, 93, 58, 32, 97>>,      \* '[^1]: a'
      <<91, 94, 50, 93, 32, 98>>,       \* '[^2] b'
      <<91, 94, 49, 48, 93, 58, 32, 32, 99, 32>>,   \* '[^10]:  c '
      <<91, 94, 49, 93, 58, 32, 100>>,      \* '[^1]: d'
      <<120, 91, 94, 49, 93>>,        \* 'x[^1]'
      <<60, 112, 62, 121, 60, 47, 112, 62>>,     \* '<p>y</p>'
      <<>> }

FootnoteTexts == { Join(ls, <<NL>>) : ls \in SeqsUpTo(FootnoteLines, MaxLines) \ {<<>>} }

InitFootnotes ==
    /\ html \in FootnoteTexts
    /\ pc = "footnotes"
    /\ data = <<>>
    /\ pos = 0
    /\ fields = <<>>
    /\ rec = NoRecord
    /\ parsed = NoParsed
    /\ blocks = <<>>
    /\ PublishIdle

\* footnote_result = process_footnotes(html, slug), publish.py
ProcessFootnotes ==
    /\ pc = "footnotes"
    /\ footnote_result' = process_footnotes(html, TestSlug)
    /\ pc' = "publish"
    /\ UNCHANGED <<data, pos, fields, rec, parsed, blocks, html, log,
                   env, all_notes, notes, lookup, posts, files, cursor,
                   index_html, feed_xml>>

\* footnote_result = process_footnotes(html, slug), publish-simple.py
SimpleProcessFootnotes ==
    /\ pc = "footnotes"
    /\ footnote_result' = simple_process_footnotes(html, TestSlug)
    /\ pc' = "publish-simple"
    /\ UNCHANGED <<data, pos, fields, rec, parsed, blocks, html, log,
                   env, all_notes, notes, lookup, posts, files, cursor,
                   index_html, feed_xml>>

NextFootnotes == ProcessFootnotes \/ SimpleProcessFootnotes

SpecFootnotes == InitFootnotes /\ [][NextFootnotes]_vars


--------------------------------------------------------------------------
(* C14 *)

\* the line is a footnote definition: the marker [^n] at its start, an
\* optional colon, white space, and text; the digits of n
DefinitionNum(line) ==
    LET digits_end == skip_digits(line, 3)
        text_from == IF digits_end + 1 <= Len(line) /\ line[digits_end + 1] = COLON
                     THEN digits_end + 2 ELSE digits_end + 1
    IN  IF /\ IsPrefix(FOOTNOTE_MARK, line)
           /\ digits_end > 3
           /\ digits_end <= Len(line)
           /\ line[digits_end] = BRACKET_CLOSE
           /\ text_from + 1 <= Len(line)
           /\ IsSpace(line[text_from])
        THEN Some(SubSeq(line, 3, digits_end - 1))
        ELSE None

\* the digit strings of the definitions of the content
DefinedNums(h) ==
    { DefinitionNum(Split(h, <<NL>>)[k])[1] :
        k \in { j \in 1..Len(Split(h, <<NL>>)) : DefinitionNum(Split(h, <<NL>>)[j]) # None } }

\* where the footer has the list item of the definition; 0 if nowhere
ItemAt(footer, slug, num) ==
    FindFrom(footer, FOOTER_LI_OPEN \o slug \o FOOTNOTE_INFIX \o num \o FOOTER_LI_TEXT, 1)

\* what the claim says of the result of process_footnotes(h, slug)
FootnotesExtracted(h, slug, result) ==
    /\ DefinedNums(result.content) = {}
    /\ CountOcc(result.footer, FOOTER_LI_OPEN)
         = Cardinality({ int_of(num) : num \in DefinedNums(h) })
    /\ \A num \in DefinedNums(h) : ItemAt(result.footer, slug, num) > 0
    /\ \A a, b \in DefinedNums(h) :
          int_of(a) < int_of(b)
          => ItemAt(result.footer, slug, a) < ItemAt(result.footer, slug, b)
    /\ DefinedNums(h) = {} => result.footer = <<>>

\* C14: process_footnotes removes every footnote definition from the content
\* and returns a footer with exactly one list item per defined numeric id, in
\* ascending numeric order whatever the order of the definitions; without a
\* definition the footer is empty.
C14_FootnotesExtracted ==
    pc \in {"publish", "publish-simple"} => FootnotesExtracted(html, TestSlug, footnote_result)

\* the same of the process_footnotes of publish-simple.py alone
C14_SimpleFootnotesExtracted ==
    pc = "publish-simple" => FootnotesExtracted(html, TestSlug, footnote_result)

\* publish-simple.py has put the definition of 2 before the definition of 10
\* that came first
C14_SimpleOutOfOrder ==
    /\ pc = "publish-simple"
    /\ html = <<91, 94, 49, 48, 93, 58, 32, 32, 99, 32, 10, 91, 94, 50, 93, 32, 98>>   \* '[^10]:  c \n[^2] b'
    /\ ItemAt(footnote_result.footer, TestSlug, <<50>>) > 0
    /\ ItemAt(footnote_result.footer, TestSlug, <<50>>)
         < ItemAt(footnote_result.footer, TestSlug, <<49, 48>>)

--------------------------------------------------------------------------
(* C22 *)

\* every run record of the record is in the documented layout
StdRuns(r) == r.kind = "note" /\ \A i \in 1..Len(r.runs) : r.runs[i].enc = "std"

\* the run records with a declared length above 0
PositiveRuns(rs) ==
    LET Positive(r) == r.length > 0
    IN  SelectSeq(rs, Positive)

\* one StyleRun for every run record with a positive length, in order, with
\* that length, starting where the lengths of the run records before it add up to
OneRunPerPositiveRecord(r, style_runs) ==
    /\ Len(style_runs) = Len(PositiveRuns(r.runs))
    /\ \A i \in 1..Len(style_runs) :
          /\ style_runs[i].length = PositiveRuns(r.runs)[i].length
          /\ style_runs[i].start = SumSeq(RunLengths(SubSeq(PositiveRuns(r.runs), 1, i - 1)))

\* every run record with a positive length starts before the end of the main text
StartsInsideText(r) ==
    \A i \in 1..Len(PositiveRuns(r.runs)) :
        SumSeq(RunLengths(SubSeq(PositiveRuns(r.runs), 1, i - 1))) < Len(r.text)

--------------------------------------------------------------------------
(* C23 *)

\* the declared lengths of the run records add up to more than the main text has
Overruns(r) == SumSeq(RunLengths(r.runs)) > Len(r.text)

\* C23: when the declared lengths overrun the main text, extract_style_runs
\* returns, and the text of every StyleRun is the main text from its start to
\* start + length or to the end of the text, whichever comes first: it is not
\* longer than the declared length and holds characters of the main text only.
C23_OverrunTruncates ==
    (/\ pc # "start" /\ StdRuns(rec) /\ rec.gz = "ok" /\ rec.shape = "full"
     /\ rec.rawtext = Utf8Encode(rec.text) /\ Overruns(rec))
    => /\ pc # "raised"
       /\ \A i \in 1..Len(parsed.style_runs) :
             /\ parsed.style_runs[i].text
                  = SubSeq(rec.text, parsed.style_runs[i].start + 1,
                           IF parsed.style_runs[i].start + parsed.style_runs[i].length < Len(rec.text)
                           THEN parsed.style_runs[i].start + parsed.style_runs[i].length
                           ELSE Len(rec.text))
             /\ Len(parsed.style_runs[i].text) <= parsed.style_runs[i].length
             /\ parsed.style_runs[i].start + Len(parsed.style_runs[i].text) <= Len(rec.text)

\* C23 witness: the last StyleRun of an overrunning record is shorter than its
\* declared length
C23_Witness ==
    /\ pc = "parsed"
    /\ StdRuns(rec)
    /\ Overruns(rec)
    /\ Len(parsed.style_runs) = 2
    /\ Len(parsed.style_runs[2].text) < parsed.style_runs[2].length
    /\ parsed.style_runs[2].text # <<>>

--------------------------------------------------------------------------
(* C25 *)

\* C25: get_note_content_fields returns the fields of the note-content message
\* that is field 3 of the document that is field 2 of the root; when the root
\* has no document or the document has no note content it returns the empty
\* list, and parse_note_content returns a ParsedNote with empty title and text
\* and no runs.
C25_AbsentHopGivesEmptyNote ==
    /\ (rec.kind = "note" /\ rec.gz = "ok" /\ rec.shape = "full")
       => get_note_content_fields(data)
            = parse_all_fields(EncNoteContent(rec.rawtext, rec.runs))
    /\ (rec.kind = "note" /\ rec.gz = "ok" /\ rec.shape \in {"no_document", "no_content"})
       => /\ get_note_content_fields(data) = <<>>
          /\ pc # "raised"
          /\ pc # "start" => /\ parsed.title = <<>>
                             /\ parsed.text_content = <<>>
                             /\ parsed.style_runs = <<>>
                             /\ parsed.note_links = <<>>

\* C25 witness: a record whose document has no note content has been parsed
C25_Witness ==
    /\ pc = "parsed"
    /\ rec.shape = "no_content"
    /\ parse_all_fields(data) # <<>>
    /\ parsed.text_content = <<>>

--------------------------------------------------------------------------
(* C21 *)

\* '<a ': the start of an anchor of either kind
ANCHOR_START == <<60, 97, 32>>

\* the piece holds as many closing tags as opening tags of every inline tag
InlineBalanced(piece) ==
    /\ CountOcc(piece, SUP_OPEN) = CountOcc(piece, SUP_CLOSE)
    /\ CountOcc(piece, STRONG_OPEN) = CountOcc(piece, STRONG_CLOSE)
    /\ CountOcc(piece, EM_OPEN) = CountOcc(piece, EM_CLOSE)
    /\ CountOcc(piece, U_OPEN) = CountOcc(piece, U_CLOSE)
    /\ CountOcc(piece, S_OPEN) = CountOcc(piece, S_CLOSE)
    /\ CountOcc(piece, ANCHOR_START) = CountOcc(piece, A_CLOSE)

\* C21: in the output of render_block for a normal or blockquote block every
\* inline tag opened inside a <p> element is closed inside the same element:
\* up to each </p> the output holds as many closing as opening inline tags.
C21_InlineTagsInsideParagraph ==
    pc = "rendered" =>
        \A i \in 1..Len(blocks) :
            blocks[i].type \in {"normal", "blockquote"} =>
                \A k \in 1..Len(Split(render_block(blocks[i], full_text_of(parsed), TestLookup, TestSlug), P_CLOSE)) :
                    InlineBalanced(Split(render_block(blocks[i], full_text_of(parsed), TestLookup, TestSlug), P_CLOSE)[k])

\* the same of the blocks whose merged runs have no double newline inside
\* their text
C21_InsideParagraphWithoutBreak ==
    pc = "rendered" =>
        \A i \in 1..Len(blocks) :
            (/\ blocks[i].type \in {"normal", "blockquote"}
             /\ \A j \in 1..Len(MergedOf(blocks[i])) :
                   CountOcc(rstrip_newlines(MergedOf(blocks[i])[j].text), <<NL, NL>>) = 0)
            => \A k \in 1..Len(Split(render_block(blocks[i], full_text_of(parsed), TestLookup, TestSlug), P_CLOSE)) :
                   InlineBalanced(Split(render_block(blocks[i], full_text_of(parsed), TestLookup, TestSlug), P_CLOSE)[k])


--------------------------------------------------------------------------
(* C24: the nesting order of the inline tags.                              *)

\* the markup of a merged run without its trailing newlines
MarkupOf(m) == rstrip_newlines(format_merged_run_as_html(m, TestLookup, TestSlug))

\* if both elements occur in h, the inner one lies inside the outer one
NestedIn(h, inner_open, inner_close, outer_open, outer_close) ==
    (FindFrom(h, inner_open, 1) > 0 /\ FindFrom(h, outer_open, 1) > 0)
    => /\ FindFrom(h, outer_open, 1) < FindFrom(h, inner_open, 1)
       /\ FindFrom(h, inner_close, 1) < FindFrom(h, outer_close, 1)

\* sup inside strong inside em inside u inside s inside a
InlineOrder(h) ==
    /\ NestedIn(h, SUP_OPEN, SUP_CLOSE, STRONG_OPEN, STRONG_CLOSE)
    /\ NestedIn(h, SUP_OPEN, SUP_CLOSE, EM_OPEN, EM_CLOSE)
    /\ NestedIn(h, SUP_OPEN, SUP_CLOSE, U_OPEN, U_CLOSE)
    /\ NestedIn(h, SUP_OPEN, SUP_CLOSE, S_OPEN, S_CLOSE)
    /\ NestedIn(h, SUP_OPEN, SUP_CLOSE, ANCHOR_START, A_CLOSE)
    /\ NestedIn(h, STRONG_OPEN, STRONG_CLOSE, EM_OPEN, EM_CLOSE)
    /\ NestedIn(h, STRONG_OPEN, STRONG_CLOSE, U_OPEN, U_CLOSE)
    /\ NestedIn(h, STRONG_OPEN, STRONG_CLOSE, S_OPEN, S_CLOSE)
    /\ NestedIn(h, STRONG_OPEN, STRONG_CLOSE, ANCHOR_START, A_CLOSE)
    /\ NestedIn(h, EM_OPEN, EM_CLOSE, U_OPEN, U_CLOSE)
    /\ NestedIn(h, EM_OPEN, EM_CLOSE, S_OPEN, S_CLOSE)
    /\ NestedIn(h, EM_OPEN, EM_CLOSE, ANCHOR_START, A_CLOSE)
    /\ NestedIn(h, U_OPEN, U_CLOSE, S_OPEN, S_CLOSE)
    /\ NestedIn(h, U_OPEN, U_CLOSE, ANCHOR_START, A_CLOSE)
    /\ NestedIn(h, S_OPEN, S_CLOSE, ANCHOR_START, A_CLOSE)

\* every attribute of the run has its element in h, and no other element is in h
InlinePresent(run, h) ==
    /\ run.is_superscript <=> CountOcc(h, SUP_OPEN) = 1 /\ CountOcc(h, SUP_CLOSE) = 1
    /\ is_bold(run) <=> CountOcc(h, STRONG_OPEN) = 1 /\ CountOcc(h, STRONG_CLOSE) = 1
    /\ is_italic(run) <=> CountOcc(h, EM_OPEN) = 1 /\ CountOcc(h, EM_CLOSE) = 1
    /\ run.is_underline <=> CountOcc(h, U_OPEN) = 1 /\ CountOcc(h, U_CLOSE) = 1
    /\ run.is_strikethrough <=> CountOcc(h, S_OPEN) = 1 /\ CountOcc(h, S_CLOSE) = 1

IsExternalLink(run) ==
    Truthy(run.link_url) /\ ~StartsWith(run.link_url[1], APPLENOTES_PREFIX)

EndsWith(s, suffix) ==
    Len(s) >= Len(suffix) /\ SubSeq(s, Len(s) - Len(suffix) + 1, Len(s)) = suffix

\* C24: in the markup of every merged run the inline elements are nested, from
\* the innermost to the outermost, sup, strong, em, u, s, with the link <a>
\* outermost; a run with an external link is wrapped in <a href="{url}"> ... </a>
\* whatever its other attributes are.
C24_InlineNestingOrder ==
    pc = "rendered" =>
        \A i \in 1..Len(blocks) :
            \A j \in 1..Len(MergedOf(blocks[i])) :
                /\ InlinePresent(MergedOf(blocks[i])[j].run, MarkupOf(MergedOf(blocks[i])[j]))
                /\ InlineOrder(MarkupOf(MergedOf(blocks[i])[j]))
                /\ IsExternalLink(MergedOf(blocks[i])[j].run)
                   => /\ StartsWith(MarkupOf(MergedOf(blocks[i])[j]),
                                    A_OPEN \o MergedOf(blocks[i])[j].run.link_url[1] \o A_CLOSE_QUOTE)
                      /\ EndsWith(MarkupOf(MergedOf(blocks[i])[j]), A_CLOSE)

\* a rendered note with a run that is superscript, bold, underlined, struck
\* through and an external link, its <sup> directly inside its <strong>
C24_Witness ==
    /\ pc = "rendered"
    /\ \E i \in 1..Len(blocks) :
          \E j \in 1..Len(MergedOf(blocks[i])) :
              /\ MergedOf(blocks[i])[j].run.is_superscript
              /\ is_bold(MergedOf(blocks[i])[j].run)
              /\ MergedOf(blocks[i])[j].run.is_underline
              /\ MergedOf(blocks[i])[j].run.is_strikethrough
              /\ IsExternalLink(MergedOf(blocks[i])[j].run)
              /\ CountOcc(MarkupOf(MergedOf(blocks[i])[j]),
                          A_CLOSE_QUOTE \o S_OPEN \o U_OPEN \o STRONG_OPEN \o SUP_OPEN) = 1


--------------------------------------------------------------------------
(* C28: the lookup of internal links, and the note_links of a ParsedNote.  *)

IsInternalLink(run) ==
    Truthy(run.link_url) /\ StartsWith(run.link_url[1], APPLENOTES_PREFIX)

\* the entries of the table whose lower-cased identifier is the lower-cased
\* last path segment of the url before any '?'
MatchingEntries(note_lookup, url) ==
    { k \in 1..Len(note_lookup) :
        lower(note_lookup[k].identifier) = lower(Last(Split(Split(url, QUESTION)[1], SLASH))) }

FirstOf(S) == CHOOSE k \in S : \A l \in S : k <= l

\* the markup of a run with an internal link: the anchor to the first matching
\* entry around the text, no anchor if no entry matches
InternalLinkResolved(m, note_lookup) ==
    IF MatchingEntries(note_lookup, m.run.link_url[1]) = {}
    THEN CountOcc(MarkupOf(m), ANCHOR_START) = 0
    ELSE /\ StartsWith(MarkupOf(m),
                       A_OPEN_SLUG
                       \o note_lookup[FirstOf(MatchingEntries(note_lookup, m.run.link_url[1]))].slug
                       \o A_HTML_CLOSE_QUOTE)
         /\ EndsWith(MarkupOf(m), A_CLOSE)

InternalRuns(style_runs) == SelectSeq(style_runs, IsInternalLink)

\* C28: the markup of every merged run with an internal link is an anchor to
\* /{slug}.html of the first NoteLookup entry whose lower-cased identifier is
\* the lower-cased last path segment of the url before any '?'; the note_links
\* of the ParsedNote are one NoteLink per style run with an internal link, in
\* the order of the runs, with the url and the text of the run.
C28_InternalLinkLookup ==
    /\ pc = "rendered" =>
          \A i \in 1..Len(blocks) :
              \A j \in 1..Len(MergedOf(blocks[i])) :
                  IsInternalLink(MergedOf(blocks[i])[j].run)
                  => InternalLinkResolved(MergedOf(blocks[i])[j], TestLookup)
    /\ parsed.status = "ok" =>
          /\ Len(parsed.note_links) = Len(InternalRuns(parsed.style_runs))
          /\ \A k \in 1..Len(parsed.note_links) :
                /\ parsed.note_links[k].url = InternalRuns(parsed.style_runs)[k].link_url[1]
                /\ parsed.note_links[k].text = InternalRuns(parsed.style_runs)[k].text

\* a rendered note with the links applenotes:note/cd, http://e and
\* applenotes:note/AB?x: two NoteLinks, and the first link points to the entry
\* "CD", which stands before the entry "cd" in the table
C28_Witness ==
    /\ pc = "rendered"
    /\ Len(parsed.style_runs) = 4
    /\ Len(parsed.note_links) = 2
    /\ parsed.note_links[1].url = URL_LOWER_CD
    /\ parsed.note_links[2].url = URL_INTERNAL
    /\ Cardinality(MatchingEntries(TestLookup, URL_LOWER_CD)) = 2
    /\ CountOcc(html, A_OPEN_SLUG \o SLUG_A \o A_HTML_CLOSE_QUOTE) = 1
    /\ CountOcc(html, A_OPEN_SLUG \o SLUG_B \o A_HTML_CLOSE_QUOTE) = 1


--------------------------------------------------------------------------
(* C26: the posts of index.html and feed.xml.                              *)

PostKey(p) == <<p.title, p.creationDate>>

NoteKey(note) == <<note.title, note.creation_date>>

\* listed holds the most recently created notes of ns, up to RECENT_POSTS of
\* them, each once, newest first
MostRecentOf(listed, ns) ==
    /\ Len(listed) = Min(RECENT_POSTS, Len(ns))
    /\ \A k \in 1..Len(listed) : \E n \in 1..Len(ns) : PostKey(listed[k]) = NoteKey(ns[n])
    /\ \A k, l \in 1..Len(listed) : k # l => listed[k] # listed[l]
    /\ \A k, l \in 1..Len(listed) :
          k < l => ~later_than(listed[l].creationDate, listed[k].creationDate)
    /\ \A n \in 1..Len(ns) :
          (\A k \in 1..Len(listed) : PostKey(listed[k]) # NoteKey(ns[n]))
          => \A k \in 1..Len(listed) :
                ~later_than(ns[n].creation_date, listed[k].creationDate)

\* C26 as stated: once a run has written index.html and feed.xml, index.html
\* holds the most recently created notes of the folder, newest first, and
\* feed.xml lists the same posts in the same order.
C26_IndexHoldsRecentPosts ==
    pc \in {"manifest", "done"} =>
        /\ MostRecentOf(index_html, all_notes)
        /\ feed_xml = index_html

\* what the run does write: the most recently created of the notes it
\* rendered, newest first, in both files
C26_IndexHoldsRenderedPosts ==
    pc \in {"manifest", "done"} =>
        /\ MostRecentOf(index_html, notes)
        /\ feed_xml = index_html

\* a finished incremental run over a folder of two notes of which one was
\* modified since the last run
C26_IncrementalRun ==
    /\ pc = "done"
    /\ env.last_published # None
    /\ Len(all_notes) = 2
    /\ Len(notes) = 1
    /\ Len(index_html) = 1

\* a finished full run whose notes were rendered oldest first
C26_FullRunOldestFirst ==
    /\ pc = "done"
    /\ env.last_published = None
    /\ Len(posts) = 2
    /\ later_than(posts[2].creationDate, posts[1].creationDate)
    /\ index_html = <<posts[2], posts[1]>>


--------------------------------------------------------------------------
(* render_template, publish.py, and the template variables of main.       *)

KEY_TITLE == <<116, 105, 116, 108, 101>>   \* 'title'

KEY_SLUG == <<115, 108, 117, 103>>   \* 'slug'

KEY_DATETIME == <<100, 97, 116, 101, 116, 105, 109, 101>>   \* 'datetime'

KEY_HUMAN_DATE == <<104, 117, 109, 97, 110, 68, 97, 116, 101>>   \* 'humanDate'

KEY_CONTENT == <<99, 111, 110, 116, 101, 110, 116>>   \* 'content'

KEY_FOOTER == <<102, 111, 111, 116, 101, 114>>   \* 'footer'

TOKEN_OPEN == <<123, 123>>   \* '{{'

TOKEN_CLOSE == <<125, 125>>   \* '}}'

\* f"{{{{{key}}}}}"
token(key) == TOKEN_OPEN \o key \o TOKEN_CLOSE

\* s.replace(old, new) for a non-empty old: the occurrences, scanned left to
\* right without overlap, are replaced
str_replace(s, old, new) == Join(Split(s, old), new)

\* replaces the tokens of the template in one scan: text that was inserted is
\* not looked at again
RECURSIVE render_template_one_scan(_, _)
render_template_one_scan(template, variables) ==
    IF template = <<>> THEN <<>>
    ELSE IF \E k \in 1..Len(variables) : StartsWith(template, token(variables[k].key))
    THEN LET k == CHOOSE k \in 1..Len(variables) : StartsWith(template, token(variables[k].key))
         IN  variables[k].value
             \o render_template_one_scan(
                    SubSeq(template, Len(token(variables[k].key)) + 1, Len(template)), variables)
    ELSE <<Head(template)>> \o render_template_one_scan(Tail(template), variables)

\* lines 554-559.  variables is the dict in insertion order: a sequence of
\* [key, value]
RECURSIVE render_template(_, _)
render_template(template, variables) ==
    IF variables = <<>> THEN template
    ELSE render_template(str_replace(template, token(Head(variables).key), Head(variables).value),
                         Tail(variables))

Var(key, value) == [key |-> key, value |-> value]

\* lines 711-718
template_vars(title, slug, datetime_str, human_date, content, footer) ==
    << Var(KEY_TITLE, title), Var(KEY_SLUG, slug), Var(KEY_DATETIME, datetime_str),
       Var(KEY_HUMAN_DATE, human_date), Var(KEY_CONTENT, content), Var(KEY_FOOTER, footer) >>

--------------------------------------------------------------------------
(* Specification SpecTemplate: one call of render_template with the        *)
(* template variables of an article.                                       *)

MaxPieces == 2

\* what a template is made of: the tokens of four variables and plain text
TemplatePieces == { token(KEY_TITLE), token(KEY_SLUG), token(KEY_CONTENT), token(KEY_FOOTER), <<120>> }

Templates == { Flatten(pieces) : pieces \in SeqsUpTo(TemplatePieces, MaxPieces) }

\* titles, contents and footers: plain, and with the text of a token in them
TemplateTitles == { <<65>>, <<65>> \o token(KEY_FOOTER), token(KEY_SLUG), token(KEY_TITLE) }

TemplateContents == { <<99>>, token(KEY_FOOTER) \o <<99>>, token(KEY_SLUG), token(KEY_TITLE) }

TemplateFooters == { <<>>, <<102>>, token(KEY_CONTENT) }

TemplateCall(template, variables) ==
    [kind |-> "template", template |-> template, variables |-> variables]

InitTemplate ==
    /\ \E t \in Templates, title \in TemplateTitles, content \in TemplateContents,
          footer \in TemplateFooters :
          rec = TemplateCall(t, template_vars(title, SLUG_A, <<49>>, <<50>>, content, footer))
    /\ pc = "template"
    /\ data = <<>>
    /\ pos = 0
    /\ fields = <<>>
    /\ parsed = NoParsed
    /\ blocks = <<>>
    /\ html = <<>>
    /\ PublishIdle

\* article_output = render_template(article_template, template_vars)
RenderTemplate ==
    /\ pc = "template"
    /\ html' = render_template(rec.template, rec.variables)
    /\ pc' = "template_rendered"
    /\ UNCHANGED <<data, pos, fields, rec, parsed, blocks, log, publish_vars>>

NextTemplate == RenderTemplate

SpecTemplate == InitTemplate /\ [][NextTemplate]_vars

--------------------------------------------------------------------------
(* C27 *)

\* the value of the variable key
ValueOf(variables, key) ==
    variables[CHOOSE k \in 1..Len(variables) : variables[k].key = key].value

HoldsToken(s) == CountOcc(s, TOKEN_OPEN) > 0

\* C27 as stated: the output of render_template is the template with each of
\* its tokens replaced by the value of its variable, in one scan: the text of
\* a value stands in the output as it is, tokens in it included.
C27_SinglePass ==
    pc = "template_rendered" => html = render_template_one_scan(rec.template, rec.variables)

\* the same of the calls in which no value holds the text of a token
C27_SinglePassOfPlainValues ==
    (/\ pc = "template_rendered"
     /\ \A k \in 1..Len(rec.variables) : ~HoldsToken(rec.variables[k].value))
    => html = render_template_one_scan(rec.template, rec.variables)

\* the template {{title}} and the title "A{{footer}}": the output holds the
\* footer in the place of the text {{footer}} of the title
C27_TitleRescanned ==
    /\ pc = "template_rendered"
    /\ rec.template = token(KEY_TITLE)
    /\ ValueOf(rec.variables, KEY_TITLE) = <<65>> \o token(KEY_FOOTER)
    /\ ValueOf(rec.variables, KEY_FOOTER) = <<102>>
    /\ html = <<65, 102>>


--------------------------------------------------------------------------
(* C29: when the manifest is written.                                      *)

\* how many times the run has written the file
WritesOf(fs, kind) == Len(SelectSeq(fs, LAMBDA w : w.kind = kind))

\* the article of every note to render, index.html and feed.xml are written
SiteWritten(fs) ==
    /\ \A k \in 1..Len(notes) :
          \E w \in 1..Len(fs) :
              fs[w] = Written("article", generate_slug(notes[k].title, notes[k].creation_date))
    /\ WritesOf(fs, "index.html") = 1
    /\ WritesOf(fs, "feed.xml") = 1

Aborted(at) == at \in {"exit_0", "exit_1", "raised"}

\* C29: a step of a run writes manifest.json only if the articles of all the
\* notes to render, index.html and feed.xml are written, and it is the last
\* step of the run; a run that has exited early or was aborted has not
\* written manifest.json.
C29_ManifestWrittenLast ==
    [][ /\ WritesOf(files', "manifest.json") # WritesOf(files, "manifest.json")
           => /\ SiteWritten(files)
              /\ WritesOf(files', "manifest.json") = 1
              /\ pc' = "done"
        /\ Aborted(pc') => WritesOf(files', "manifest.json") = 0
        /\ pc = "done" => files' = files ]_vars

\* a finished run over two notes: two articles, index.html, feed.xml, and
\* manifest.json as the last write
C29_Witness ==
    /\ pc = "done"
    /\ Len(notes) = 2
    /\ Len(files) = 5
    /\ files[5] = Written("manifest.json", <<>>)

\* a run that found no note modified since last_published and wrote nothing
C29_NothingModified ==
    /\ pc = "exit_0"
    /\ env.last_published # None
    /\ all_notes # <<>>
    /\ files = <<>>


--------------------------------------------------------------------------
(* Specification SpecIncremental: consecutive runs of main over a folder   *)
(* whose notes are edited in the Notes application while the runs go on.   *)
(* A note is [identifier, title, modification_date, parsed_content], its   *)
(* parsed_content the number of the revision of its text; an article is    *)
(* written with the revision it was rendered from.                         *)

MaxDay == 4

MaxEdits == 2

MaxPublishRuns == 2

\* the clock: datetime.now() and the modification dates are days of one month
Day(d) == Datetime(2025, 3, d)

FolderNote(identifier, title, modification_date, revision) ==
    [identifier |-> identifier, title |-> title,
     modification_date |-> modification_date, parsed_content |-> revision]

NotesApp(now, folder, manifest, last_published) ==
    [kind |-> "notes_app", now |-> now, folder |-> folder,
     manifest |-> manifest, last_published |-> last_published]

Article(note) == [kind |-> "article", slug |-> note.title, content |-> note.parsed_content]

\* the first run starts on day 1 over two notes, without a manifest
InitIncremental ==
    /\ env = NotesApp(1, << FolderNote(<<65, 66>>, <<65>>, Day(1), 0),
                            FolderNote(<<67, 68>>, <<66>>, Day(1), 0) >>, None, None)
    /\ pc = "load_manifest"
    /\ cursor = 1
    /\ data = <<>>
    /\ pos = 0
    /\ fields = <<>>
    /\ rec = NoRecord
    /\ parsed = NoParsed
    /\ blocks = <<>>
    /\ html = <<>>
    /\ log = <<>>
    /\ all_notes = <<>>
    /\ notes = <<>>
    /\ lookup = <<>>
    /\ posts = <<>>
    /\ files = <<>>
    /\ footnote_result = NoResult
    /\ index_html = <<>>
    /\ feed_xml = <<>>

\* time passes
Tick ==
    /\ env.now < MaxDay
    /\ env' = [env EXCEPT !.now = env.now + 1]
    /\ UNCHANGED <<data, pos, fields, pc, rec, parsed, blocks, html, log,
                   all_notes, notes, lookup, posts, files, cursor, footnote_result,
                   index_html, feed_xml>>

Edits(folder) == folder[1].parsed_content + folder[2].parsed_content

\* the user edits a note in the Notes application: a new revision of its
\* text, and its modification date is now
EditNote ==
    /\ Edits(env.folder) < MaxEdits
    /\ \E i \in 1..Len(env.folder) :
          env' = [env EXCEPT !.folder[i].modification_date = Day(env.now),
                             !.folder[i].parsed_content = env.folder[i].parsed_content + 1]
    /\ UNCHANGED <<data, pos, fields, pc, rec, parsed, blocks, html, log,
                   all_notes, notes, lookup, posts, files, cursor, footnote_result,
                   index_html, feed_xml>>

\* lines 625-628
LoadManifest ==
    /\ pc = "load_manifest"
    /\ env' = [env EXCEPT !.last_published = env.manifest]
    /\ pc' = "read_notes"
    /\ UNCHANGED <<data, pos, fields, rec, parsed, blocks, html, log,
                   all_notes, notes, lookup, posts, files, cursor, footnote_result,
                   index_html, feed_xml>>

\* line 659: the notes of the folder as they are now
ReadNotes ==
    /\ pc = "read_notes"
    /\ all_notes' = env.folder
    /\ pc' = "filter_notes"
    /\ UNCHANGED <<data, pos, fields, rec, parsed, blocks, html, log,
                   env, notes, lookup, posts, files, cursor, footnote_result,
                   index_html, feed_xml>>

\* lines 668-678
FilterModified ==
    /\ pc = "filter_notes"
    /\ notes' = IF env.last_published # None
                THEN modified_since(all_notes, env.last_published[1])
                ELSE all_notes
    /\ IF notes' = <<>>
       THEN /\ pc' = "exit_0"
            /\ log' = Append(log, "No notes modified since")
       ELSE /\ pc' = "render_notes"
            /\ log' = log
    /\ UNCHANGED <<data, pos, fields, rec, parsed, blocks, html,
                   env, all_notes, lookup, posts, files, cursor, footnote_result,
                   index_html, feed_xml>>

\* lines 695-754: the articles of the notes to render, from the content that
\* was read
RenderNotes ==
    /\ pc = "render_notes"
    /\ posts' = [k \in 1..Len(notes) |-> Article(notes[k])]
    /\ files' = files \o posts'
    /\ pc' = "save_manifest"
    /\ UNCHANGED <<data, pos, fields, rec, parsed, blocks, html, log,
                   env, all_notes, notes, lookup, cursor, footnote_result,
                   index_html, feed_xml>>

\* the timestamp save_manifest writes: datetime.now(timezone.utc), line 103
manifest_timestamp(now) == Day(now)

\* lines 757 and 93-108
SaveManifestNow ==
    /\ pc = "save_manifest"
    /\ env' = [env EXCEPT !.manifest = Some(manifest_timestamp(env.now))]
    /\ pc' = "done"
    /\ UNCHANGED <<data, pos, fields, rec, parsed, blocks, html, log,
                   all_notes, notes, lookup, posts, files, cursor, footnote_result,
                   index_html, feed_xml>>

\* main is started again
NextRun ==
    /\ pc \in {"done", "exit_0"}
    /\ cursor < MaxPublishRuns
    /\ cursor' = cursor + 1
    /\ pc' = "load_manifest"
    /\ all_notes' = <<>>
    /\ notes' = <<>>
    /\ posts' = <<>>
    /\ UNCHANGED <<data, pos, fields, rec, parsed, blocks, html, log,
                   env, lookup, files, footnote_result, index_html, feed_xml>>

NextIncremental ==
    \/ Tick
    \/ EditNote
    \/ LoadManifest
    \/ ReadNotes
    \/ FilterModified
    \/ RenderNotes
    \/ SaveManifestNow
    \/ NextRun

SpecIncremental == InitIncremental /\ [][NextIncremental]_vars

--------------------------------------------------------------------------
(* C30 *)

RunEnded == pc \in {"done", "exit_0"}

\* the revision of the note that the run read has an article
Published(note) == \E w \in 1..Len(files) : files[w] = Article(note)

\* C30 as stated: when a run has ended, every note of the folder has an
\* article of the revision the run read: an edit made after an earlier run
\* read the note, also one made before that run ended, is rendered by the
\* next run.
C30_NoModificationLost ==
    RunEnded => \A i \in 1..Len(all_notes) : Published(all_notes[i])

\* the first part of the claim: a run renders the notes whose modification
\* date is later than last_published, all notes if there is no manifest
C30_RendersModifiedSince ==
    pc \in {"render_notes", "save_manifest", "done", "exit_0"} =>
        \A i \in 1..Len(all_notes) :
            (\E k \in 1..Len(notes) : notes[k] = all_notes[i])
            <=> \/ env.last_published = None
                \/ later_than(all_notes[i].modification_date, env.last_published[1])

\* the second run has ended without rendering a note that was edited on day 2,
\* after the first run had read it and before it saved its manifest on day 3
C30_EditLost ==
    /\ cursor = 2
    /\ pc = "exit_0"
    /\ env.manifest = Some(Day(3))
    /\ all_notes[1].modification_date = Day(2)
    /\ all_notes[1].parsed_content = 1
    /\ ~Published(all_notes[1])

\* the second run has rendered the one note that was edited after the first
\* run had saved its manifest
C30_EditRendered ==
    /\ cursor = 2
    /\ pc = "done"
    /\ Len(notes) = 1
    /\ Len(all_notes) = 2
    /\ later_than(notes[1].modification_date, env.last_published[1])

====
